---- MODULE Spec2Model ----
(***************************************************************************)
(* KeyNest backend: the encrypted variable store, its access policy, the   *)
(* import / export views and the organization membership operations,      *)
(* modelled as a state machine over the database rows.                     *)
(*                                                                         *)
(* Each action is one HTTP request run to completion (the view, the        *)
(* serializer and the model methods it calls).  The request and what the   *)
(* view answered are kept in `last` until Respond hands the answer back.   *)
(***************************************************************************)
EXTENDS Integers, Sequences, FiniteSets, TLC

----------------------------------------------------------------------------
(* Bounds of the model *)

\* audit rows the log may hold; a request that would add one more is not taken
MaxAudit == 2
\* largest primary key handed out to an EnvVariable row
MaxVarId == 3

----------------------------------------------------------------------------
(* The tenants the requests act on *)

Users == {"u1", "u2", "u3"}
Orgs == {"o1", "o2"}
Envs == {"e1", "e2"}

\* environment.project.organization
EnvOrg(e) == IF e = "e1" THEN "o1" ELSE "o2"
\* environment.id
EnvPk(e) == IF e = "e1" THEN 1 ELSE 2

\* OrganizationMembership.ROLE_CHOICES; NoMember stands for "no membership row"
Roles == {"admin", "editor", "viewer"}
NoMember == "none"

\* Python None / a field that the request does not carry
None == "<None>"
NoKey == <<>>
NoEnv == "<None>"

----------------------------------------------------------------------------
(* Variable keys: strings over a small alphabet, as sequences of characters *)

UpperChars == {"B", "F"}
LowerChars == {"b", "e", "f", "o", "p", "r", "t", "x"}
DigitChars == {"1"}

KeyF == <<"F">>
KeyB == <<"B">>
Keyf == <<"f">>
Keys == {KeyF, KeyB, Keyf}

\* str.lower() on one character
LowerChar(c) == IF c = "F" THEN "f" ELSE IF c = "B" THEN "b" ELSE c
\* k.lower()
Lower(k) == [i \in 1..Len(k) |-> LowerChar(k[i])]

\* ord(c)
Ord(c) ==
    CASE c = "1" -> 49
      [] c = "B" -> 66
      [] c = "F" -> 70
      [] c = "_" -> 95
      [] c = "b" -> 98
      [] c = "e" -> 101
      [] c = "f" -> 102
      [] c = "o" -> 111
      [] c = "p" -> 112
      [] c = "r" -> 114
      [] c = "t" -> 116
      [] c = "x" -> 120

\* Python's < on str: lexicographic by code point
RECURSIVE StrLess(_, _)
StrLess(a, b) ==
    IF b = <<>> THEN FALSE
    ELSE IF a = <<>> THEN TRUE
    ELSE IF Ord(Head(a)) # Ord(Head(b)) THEN Ord(Head(a)) < Ord(Head(b))
    ELSE StrLess(Tail(a), Tail(b))

\* re.match(r'^[A-Z][A-Z0-9_]*$', value)
MatchesVariableKey(k) ==
    /\ Len(k) >= 1
    /\ k[1] \in UpperChars
    /\ \A i \in 2..Len(k) : k[i] \in UpperChars \cup DigitChars \cup {"_"}

\* re.match(r'^[A-Za-z_][A-Za-z0-9_]*$', key)
MatchesImportKey(k) ==
    /\ Len(k) >= 1
    /\ k[1] \in UpperChars \cup LowerChars \cup {"_"}
    /\ \A i \in 2..Len(k) :
          k[i] \in UpperChars \cup LowerChars \cup DigitChars \cup {"_"}

----------------------------------------------------------------------------
(* Secret values and the crypto envelope *)

Values == {"", "a", "b"}

\* the encrypted_value column of a row that was saved without a value
NoCiphertext == [alg |-> "none", data |-> ""]

\* EnvVariable.encrypt_value raises ValueError
EncryptFails(plain) == plain = ""
\* the column EnvVariable.encrypt_value leaves when it does not raise
Encrypted(plain) == [alg |-> "fernet", data |-> plain]

\* EnvVariable.decrypt_value raises ValueError
DecryptFails(enc) == enc.alg \notin {"none", "fernet"}
\* what EnvVariable.decrypt_value returns when it does not raise
Decrypted(enc) == IF enc.alg = "none" THEN "" ELSE enc.data

\* markers the views put in place of a value
HIDDEN == "[HIDDEN]"
NO_ACCESS == "[NO_ACCESS]"
DECRYPTION_ERROR == "[DECRYPTION_ERROR]"

----------------------------------------------------------------------------
VARIABLES
    orgs,        \* Organization rows (the organizations that exist)
    members,     \* OrganizationMembership: members[o][u] is a role or NoMember
    invitations, \* OrganizationInvitation rows
    environments, \* Environment rows (the environments that exist)
    variables,   \* EnvVariable rows
    versions,    \* EnvVariableVersion rows
    audit,       \* AuditLog rows, oldest first
    nextId,      \* next primary key of EnvVariable
    hist,        \* history: per variable id, the plaintext last written and
                 \* the number of successful value updates through the serializer
    last         \* the request being answered and the answer

vars == <<orgs, members, invitations, environments, variables, versions, audit, nextId, hist, last>>

\* the tables of organizations, memberships, invitations and environments
tenancy == <<orgs, members, invitations, environments>>

\* the database tables of the variable store
store == <<variables, versions, audit>>

----------------------------------------------------------------------------
(* Queries *)

\* OrganizationMembership.objects.get(user=u, organization=o).role
RoleOf(u, o) == members[o][u]

\* EnvVariable.objects.filter(environment=e)
VarsOf(e) == {r \in variables : r.environment = e}

\* EnvVariable.objects.filter(environment=e, key=k)
RowsAt(e, k) == {r \in variables : r.environment = e /\ r.key = k}

\* the rows of every environment of organization o
VarsOfOrg(o) == {r \in variables : EnvOrg(r.environment) = o}

VersionsOf(id) == {v \in versions : v.env_variable = id}

\* the row with primary key id
RowById(id) == CHOOSE r \in variables : r.id = id

\* the primary keys of a set of rows, ascending (the order the database
\* returns rows without an ORDER BY)
RECURSIVE IdsAscending(_)
IdsAscending(rows) ==
    IF rows = {} THEN <<>>
    ELSE LET first == CHOOSE r \in rows : \A q \in rows : r.id <= q.id
         IN <<first.id>> \o IdsAscending(rows \ {first})

\* sorted(keys)
RECURSIVE SortedKeys(_)
SortedKeys(ks) ==
    IF ks = {} THEN <<>>
    ELSE LET first == CHOOSE k \in ks : \A q \in ks \ {k} : StrLess(k, q)
         IN <<first>> \o SortedKeys(ks \ {first})

----------------------------------------------------------------------------
(* Requests and answers *)

NoAttrs == [key |-> NoKey, environment |-> NoEnv, value |-> None]

NoRequest ==
    [op |-> "none", user |-> "", organization |-> "", target |-> "",
     role |-> "", environment |-> NoEnv, id |-> 0,
     attrs |-> NoAttrs, format |-> "", overwrite |-> "", data |-> <<>>,
     status |-> 0, error |-> "", body |-> <<>>, conflicts |-> {},
     imported |-> 0, updated |-> 0, failed |-> {}]

Request(op, u) == [NoRequest EXCEPT !.op = op, !.user = u]

\* the view answers with an error and writes nothing
Reject(req, status, error) ==
    /\ last' = [req EXCEPT !.status = status, !.error = error]
    /\ UNCHANGED <<tenancy, variables, versions, audit, nextId, hist>>

\* AuditLog.objects.create(...)
AuditEntry(u, action, target_type, target_id, details) ==
    [user |-> u, action |-> action, target_type |-> target_type,
     target_id |-> target_id, details |-> details]

\* environment.project.name
EnvProject(e) == IF e = "e1" THEN "p1" ELSE "p2"

----------------------------------------------------------------------------
(* Access policy *)

\* membership.role in ['admin', 'editor']
IsWriterRole(role) == role \in {"admin", "editor"}


\* the permission matrix when destroy is granted to editors for environments too
HasEnvironmentPermission_EditorDeletesEnvironment(u, o, action, isVariable) ==
    LET role == RoleOf(u, o)
    IN IF role = NoMember THEN FALSE
       ELSE IF action \in {"list", "retrieve"} THEN TRUE
       ELSE IsWriterRole(role)

\* HasEnvironmentPermission.has_object_permission for an EnvVariable (isVariable)
\* or an Environment of organization o
HasEnvironmentPermission(u, o, action, isVariable) ==
    LET role == RoleOf(u, o)
    IN IF role = NoMember THEN FALSE
       ELSE IF action \in {"list", "retrieve"} THEN TRUE
       ELSE IF action = "create" THEN IsWriterRole(role)
       ELSE IF action \in {"update", "partial_update"} THEN IsWriterRole(role)
       ELSE IF action = "destroy"
            THEN IF isVariable THEN IsWriterRole(role) ELSE role = "admin"
       ELSE IsWriterRole(role)

\* EnvVariableViewSet.get_queryset: the rows of the organizations u belongs to
InQueryset(u, row) == RoleOf(u, EnvOrg(row.environment)) # NoMember


\* get_decrypted_value without the role test: every member is shown the value
get_decrypted_value_AnyMember(u, row) ==
    IF RoleOf(u, EnvOrg(row.environment)) = NoMember THEN NO_ACCESS
    ELSE IF DecryptFails(row.encrypted_value) THEN DECRYPTION_ERROR
    ELSE Decrypted(row.encrypted_value)

\* EnvVariableSerializer.get_decrypted_value
get_decrypted_value(u, row) ==
    LET role == RoleOf(u, EnvOrg(row.environment))
    IN IF role = NoMember THEN NO_ACCESS
       ELSE IF IsWriterRole(role)
            THEN IF DecryptFails(row.encrypted_value) THEN DECRYPTION_ERROR
                 ELSE Decrypted(row.encrypted_value)
       ELSE HIDDEN

\* EnvVariableSerializer.validate_key: TRUE when it raises
KeyRejected(k) == k = NoKey \/ ~MatchesVariableKey(k)


\* validate without its duplicate check
DuplicateExists_Never(e, k, instanceId) == FALSE

\* the duplicate check of EnvVariableSerializer.validate: another row than the
\* instance holds (environment, key)
DuplicateExists(e, k, instanceId) ==
    \E r \in RowsAt(e, k) : r.id # instanceId

\* EnvVariableSerializer.validate: "" when the attributes pass, else the error
validate(u, attrs, instanceId) ==
    IF attrs.environment # NoEnv /\ attrs.key # NoKey
    THEN LET role == RoleOf(u, EnvOrg(attrs.environment))
         IN IF role = NoMember THEN "no_access"
            ELSE IF ~IsWriterRole(role) THEN "no_permission"
            ELSE IF DuplicateExists(attrs.environment, attrs.key, instanceId)
                 THEN "duplicate_key"
            ELSE ""
    ELSE ""

\* a table without the unique_together constraint
ViolatesUniqueTogether_Never(row) == FALSE

\* EnvVariable.Meta.unique_together: saving row would leave two rows with its
\* (environment, key)
ViolatesUniqueTogether(row) ==
    \E r \in variables :
        r.id # row.id /\ r.environment = row.environment /\ r.key = row.key

----------------------------------------------------------------------------
(* Variable requests: EnvVariableViewSet *)

\* POST /variables/ : create -> EnvVariableSerializer.validate_key, validate,
\* create -> perform_create
VariableCreate(u, e, k, v) ==
    /\ last = NoRequest
    /\ LET attrs == [key |-> k, environment |-> e, value |-> v]
           req == [Request("create", u) EXCEPT !.environment = e, !.attrs = attrs]
           value == IF v = None THEN "" ELSE v
           row == [id |-> nextId, key |-> k, environment |-> e,
                   encrypted_value |-> IF value # "" THEN Encrypted(value)
                                       ELSE NoCiphertext,
                   created_by |-> u]
       IN IF KeyRejected(k) THEN Reject(req, 400, "invalid_key")
          ELSE IF validate(u, attrs, 0) # ""
               THEN Reject(req, 400, validate(u, attrs, 0))
          ELSE /\ nextId <= MaxVarId
               /\ Len(audit) < MaxAudit
               /\ variables' = variables \cup {row}
               /\ nextId' = nextId + 1
               /\ hist' = Append(hist, [plain |-> value, updates |-> 0])
               /\ audit' = Append(audit,
                      AuditEntry(u, "create", "variable", row.id,
                                 [key |-> k, environment |-> e,
                                  project |-> EnvProject(e)]))
               /\ last' = [req EXCEPT !.status = 201, !.id = row.id]
               /\ UNCHANGED <<tenancy, versions>>


\* the details of perform_update when they also carry the submitted value
update_details_WithValue(new, old, v) ==
    [key |-> new.key,
     value_updated |-> v # None,
     had_value |-> old.encrypted_value # NoCiphertext,
     value |-> v]

\* the details perform_update records: new is the saved row, old the row
\* before the save, v the submitted value
update_details(new, old, v) ==
    [key |-> new.key,
     value_updated |-> v # None,
     had_value |-> old.encrypted_value # NoCiphertext]

\* PUT / PATCH /variables/{id}/ : get_object, has_object_permission,
\* validate_key, validate, EnvVariableSerializer.update -> perform_update.
\* k, e, v are the fields of the body; NoKey, NoEnv, None when left out.
VariableUpdate(u, id, k, e, v) ==
    /\ last = NoRequest
    /\ \E r \in variables : r.id = id
    /\ LET old == RowById(id)
           attrs == [key |-> k, environment |-> e, value |-> v]
           req == [Request("update", u) EXCEPT
                       !.id = id, !.environment = old.environment, !.attrs = attrs]
           moved == [old EXCEPT
                       !.key = IF k = NoKey THEN @ ELSE k,
                       !.environment = IF e = NoEnv THEN @ ELSE e]
           new == [moved EXCEPT
                       !.encrypted_value = IF v = None THEN @ ELSE Encrypted(v)]
       IN IF ~InQueryset(u, old)
          THEN Reject([req EXCEPT !.attrs = NoAttrs], 404, "not_found")
          ELSE IF ~HasEnvironmentPermission(u, EnvOrg(old.environment),
                                            "partial_update", TRUE)
               THEN Reject([req EXCEPT !.attrs = NoAttrs], 403, "permission_denied")
          ELSE IF k # NoKey /\ KeyRejected(k) THEN Reject(req, 400, "invalid_key")
          ELSE IF validate(u, attrs, id) # ""
               THEN Reject(req, 400, validate(u, attrs, id))
          ELSE IF ViolatesUniqueTogether(moved)
               THEN Reject(req, 400, "unique_together")
          ELSE IF v # None /\ EncryptFails(v)
               THEN Reject(req, 500, "encryption_failed")
          ELSE /\ Len(audit) < MaxAudit
               /\ variables' = (variables \ {old}) \cup {new}
               /\ hist' = [hist EXCEPT ![id] =
                              IF v = None THEN @
                              ELSE [plain |-> v, updates |-> @.updates + 1]]
               /\ audit' = Append(audit,
                      AuditEntry(u, "update", "variable", id,
                                 update_details(new, old, v)))
               /\ last' = [req EXCEPT !.status = 200]
               /\ UNCHANGED <<tenancy, versions, nextId>>

\* DELETE /variables/{id}/ : get_object, has_object_permission, perform_destroy
\* (the inherited one: instance.delete(), which cascades to the versions)
VariableDestroy(u, id) ==
    /\ last = NoRequest
    /\ \E r \in variables : r.id = id
    /\ LET old == RowById(id)
           req == [Request("destroy", u) EXCEPT
                       !.id = id, !.environment = old.environment]
       IN IF ~InQueryset(u, old) THEN Reject(req, 404, "not_found")
          ELSE IF ~HasEnvironmentPermission(u, EnvOrg(old.environment),
                                            "destroy", TRUE)
               THEN Reject(req, 403, "permission_denied")
          ELSE /\ variables' = variables \ {old}
               /\ versions' = versions \ VersionsOf(id)
               /\ last' = [req EXCEPT !.status = 204]
               /\ UNCHANGED <<tenancy, audit, nextId, hist>>

\* GET /variables/{id}/ : get_object, has_object_permission, serializer.data
VariableRetrieve(u, id) ==
    /\ last = NoRequest
    /\ \E r \in variables : r.id = id
    /\ LET row == RowById(id)
           req == [Request("retrieve", u) EXCEPT
                       !.id = id, !.environment = row.environment]
       IN IF ~InQueryset(u, row) THEN Reject(req, 404, "not_found")
          ELSE IF ~HasEnvironmentPermission(u, EnvOrg(row.environment),
                                            "retrieve", TRUE)
               THEN Reject(req, 403, "permission_denied")
          ELSE /\ last' = [req EXCEPT
                              !.status = 200,
                              !.body = <<<<row.key, get_decrypted_value(u, row)>>>>]
               /\ UNCHANGED <<tenancy, variables, versions, audit, nextId, hist>>

\* GET /environments/{env_id}/variables/ : EnvironmentVariableListView
EnvironmentVariableList(u, e) ==
    /\ last = NoRequest
    /\ LET req == [Request("list", u) EXCEPT !.environment = e]
           ids == IdsAscending(VarsOf(e))
       IN IF RoleOf(u, EnvOrg(e)) = NoMember
          THEN Reject(req, 403, "permission_denied")
          ELSE /\ last' = [req EXCEPT
                              !.status = 200,
                              !.body = [i \in 1..Len(ids) |->
                                          <<RowById(ids[i]).key,
                                            get_decrypted_value(u, RowById(ids[i]))>>]]
               /\ UNCHANGED <<tenancy, variables, versions, audit, nextId, hist>>

\* the answer leaves the server; the next request may start
Respond ==
    /\ last # NoRequest
    /\ last' = NoRequest
    /\ UNCHANGED <<tenancy, variables, versions, audit, nextId, hist>>

----------------------------------------------------------------------------
(* Export: export_env_file *)

ExportFormats == {"env", "json", "yaml"}

\* the loop body of export_env_file without its except branch
ExportValue_NoMarker(row) == Decrypted(row.encrypted_value)

\* the loop body of export_env_file: what env_data holds for one row
ExportValue(row) ==
    IF DecryptFails(row.encrypted_value) THEN DECRYPTION_ERROR
    ELSE Decrypted(row.encrypted_value)

\* the rows of e in the order the exported content lists them:
\* generate_env_content sorts by key, yaml.dump sorts its keys, json.dumps
\* keeps the order of the queryset
ExportOrder(e, fmt) ==
    IF fmt = "json" THEN [i \in 1..Cardinality(VarsOf(e)) |->
                             RowById(IdsAscending(VarsOf(e))[i]).key]
    ELSE SortedKeys({r.key : r \in VarsOf(e)})

\* the exported content, one <<key, value>> per variable
ExportContent(e, fmt) ==
    [i \in 1..Len(ExportOrder(e, fmt)) |->
        <<ExportOrder(e, fmt)[i],
          ExportValue(CHOOSE r \in VarsOf(e) : r.key = ExportOrder(e, fmt)[i])>>]

\* GET /environments/{env_id}/export/?format=fmt
Export(u, e, fmt) ==
    /\ last = NoRequest
    /\ LET req == [Request("export", u) EXCEPT !.environment = e, !.format = fmt]
           failed_decryptions ==
               {r.key : r \in {q \in VarsOf(e) : DecryptFails(q.encrypted_value)}}
       IN IF RoleOf(u, EnvOrg(e)) = NoMember
          THEN Reject(req, 403, "permission_denied")
          ELSE IF fmt \notin ExportFormats THEN Reject(req, 400, "invalid_format")
          ELSE /\ Len(audit) < MaxAudit
               /\ audit' = Append(audit,
                      AuditEntry(u, "export", "environment", EnvPk(e),
                                 [format |-> fmt,
                                  variable_count |-> Cardinality(VarsOf(e)),
                                  failed_decryptions |-> failed_decryptions,
                                  environment |-> e,
                                  project |-> EnvProject(e)]))
               /\ last' = [req EXCEPT !.status = 200,
                                      !.body = ExportContent(e, fmt),
                                      !.failed = failed_decryptions]
               /\ UNCHANGED <<tenancy, variables, versions, nextId, hist>>

----------------------------------------------------------------------------
(* Import: import_env_file *)

ImportFormats == {"env", "json", "yaml"}

\* request.data.get('overwrite', False): the Python values False (also when
\* the field is left out), True, and the text 'false' of a form upload
PyFalse == "False"
PyTrue == "True"
TextFalse == "'false'"
OverwriteInputs == {PyFalse, PyTrue, TextFalse}

\* bool(x) for the values above: only False is falsy, a non-empty str is truthy
Truthy(x) == x # PyFalse

\* str(value) for a parsed value that is a str or None
PyStr(value) == IF value = None THEN "None" ELSE value


\* validate_env_data without the case-insensitive duplicate check
validate_env_data_NoDuplicateCheck(data) ==
    {"invalid_key" : k \in {q \in DOMAIN data : ~MatchesImportKey(q)}}
    \cup (IF Cardinality(DOMAIN data) > 1000 THEN {"too_many"} ELSE {})

\* validate_env_data: the errors it returns
validate_env_data(data) ==
    {"invalid_key" : k \in {q \in DOMAIN data : ~MatchesImportKey(q)}}
    \cup (IF Cardinality({Lower(k) : k \in DOMAIN data}) # Cardinality(DOMAIN data)
          THEN {"duplicate_keys"} ELSE {})
    \cup (IF Cardinality(DOMAIN data) > 1000 THEN {"too_many"} ELSE {})

\* the keys of data that already exist in e
Conflicts(e, data) == {k \in DOMAIN data : RowsAt(e, k) # {}}

\* the keys of data for which the loop creates a row, in the order it meets them
NewKeys(e, data) == SortedKeys(DOMAIN data \ Conflicts(e, data))

\* the keys whose encrypt_value raises inside the loop
FailedKeys(data) == {k \in DOMAIN data : EncryptFails(PyStr(data[k]))}


\* the import loop when it creates the new keys but leaves existing rows alone
ImportedRows_SkipExisting(u, e, data) ==
    variables \cup
    {[id |-> nextId + i - 1,
      key |-> NewKeys(e, data)[i],
      environment |-> e,
      encrypted_value |->
          IF EncryptFails(PyStr(data[NewKeys(e, data)[i]])) THEN NoCiphertext
          ELSE Encrypted(PyStr(data[NewKeys(e, data)[i]])),
      created_by |-> u] :
     i \in 1..Len(NewKeys(e, data))}

\* the rows after the loop of import_env_file
ImportedRows(u, e, data) ==
    LET kept == {r \in variables : r.environment # e \/ r.key \notin DOMAIN data}
        updated == {[r EXCEPT !.encrypted_value =
                         IF EncryptFails(PyStr(data[r.key])) THEN @
                         ELSE Encrypted(PyStr(data[r.key]))] :
                    r \in {q \in VarsOf(e) : q.key \in DOMAIN data}}
        created == {[id |-> nextId + i - 1,
                     key |-> NewKeys(e, data)[i],
                     environment |-> e,
                     encrypted_value |->
                         IF EncryptFails(PyStr(data[NewKeys(e, data)[i]]))
                         THEN NoCiphertext
                         ELSE Encrypted(PyStr(data[NewKeys(e, data)[i]])),
                     created_by |-> u] :
                    i \in 1..Len(NewKeys(e, data))}
    IN kept \cup updated \cup created

\* POST /environments/{env_id}/import/ ; data is the mapping the parser of
\* format fmt returns for the uploaded content
Import(u, e, fmt, ow, data) ==
    /\ last = NoRequest
    /\ LET req == [Request("import", u) EXCEPT
                       !.environment = e, !.format = fmt,
                       !.overwrite = ow, !.data = data]
           conflicts == Conflicts(e, data)
           new == NewKeys(e, data)
           failed == FailedKeys(data)
           imported_count == Cardinality((DOMAIN data \ conflicts) \ failed)
           updated_count == Cardinality(conflicts \ failed)
       IN IF ~IsWriterRole(RoleOf(u, EnvOrg(e)))
          THEN Reject(req, 403, "permission_denied")
          ELSE IF validate_env_data(data) # {}
               THEN Reject(req, 400,
                           IF "duplicate_keys" \in validate_env_data(data)
                           THEN "duplicate_keys" ELSE "invalid_key")
          ELSE IF conflicts # {} /\ ~Truthy(ow)
               THEN /\ last' = [req EXCEPT !.status = 409,
                                           !.error = "conflict",
                                           !.conflicts = conflicts]
                    /\ UNCHANGED <<tenancy, variables, versions, audit,
                                   nextId, hist>>
          ELSE /\ nextId + Len(new) - 1 <= MaxVarId
               /\ Len(audit) < MaxAudit
               /\ variables' = ImportedRows(u, e, data)
               /\ nextId' = nextId + Len(new)
               /\ hist' = [id \in 1..(nextId + Len(new) - 1) |->
                             IF id >= nextId
                             THEN [plain |-> PyStr(data[new[id - nextId + 1]]),
                                   updates |-> 0]
                             ELSE IF \E r \in VarsOf(e) :
                                        r.id = id /\ r.key \in DOMAIN data \ failed
                                  THEN [hist[id] EXCEPT !.plain =
                                           PyStr(data[RowById(id).key])]
                             ELSE hist[id]]
               /\ audit' = Append(audit,
                      AuditEntry(u, "import", "environment", EnvPk(e),
                                 [format |-> fmt,
                                  imported_count |-> imported_count,
                                  updated_count |-> updated_count,
                                  failed_imports |-> Cardinality(failed),
                                  overwrite_enabled |-> ow,
                                  environment |-> e,
                                  project |-> EnvProject(e)]))
               /\ last' = [req EXCEPT !.status = 200,
                                      !.imported = imported_count,
                                      !.updated = updated_count,
                                      !.failed = failed]
               /\ UNCHANGED <<tenancy, versions>>

----------------------------------------------------------------------------
(* The variable store: initial state and next-state relation *)

\* o1: u1 created it, u2 and u3 accepted invitations as editor and viewer;
\* o2: u3 created it, u2 accepted an invitation as viewer
InitMembers ==
    [o \in Orgs |->
        IF o = "o1" THEN [u \in Users |->
                             IF u = "u1" THEN "admin"
                             ELSE IF u = "u2" THEN "editor" ELSE "viewer"]
        ELSE [u \in Users |->
                 IF u = "u3" THEN "admin"
                 ELSE IF u = "u2" THEN "viewer" ELSE NoMember]]

\* the invitations that led to InitMembers, all accepted
InitInvitations ==
    {[organization |-> "o1", invitee |-> "u2",
      role |-> "editor", status |-> "accepted", expired |-> FALSE],
     [organization |-> "o1", invitee |-> "u3",
      role |-> "viewer", status |-> "accepted", expired |-> FALSE],
     [organization |-> "o2", invitee |-> "u2",
      role |-> "viewer", status |-> "accepted", expired |-> FALSE]}

\* the documents an import request may carry, as the mapping they parse to
ImportDocs ==
    { KeyF :> "b",                    \* a key the seeded environment holds
      KeyB :> "a",                    \* a key it does not hold
      KeyF :> "b" @@ KeyB :> "a",     \* one of each
      KeyF :> "a" @@ Keyf :> "b",     \* two keys that differ only in case
      Keyf :> "a",                    \* a lower-case key
      KeyB :> "",                     \* an empty value
      KeyF :> "" @@ KeyB :> "b" }     \* an empty value beside a non-empty one

\* the database after u1 has created variable F = "a" in e1
Init ==
    /\ orgs = Orgs
    /\ members = InitMembers
    /\ invitations = InitInvitations
    /\ environments = Envs
    /\ variables = {[id |-> 1, key |-> KeyF, environment |-> "e1",
                     encrypted_value |-> Encrypted("a"), created_by |-> "u1"]}
    /\ versions = {}
    /\ audit = <<AuditEntry("u1", "create", "variable", 1,
                            [key |-> KeyF, environment |-> "e1",
                             project |-> EnvProject("e1")])>>
    /\ nextId = 2
    /\ hist = <<[plain |-> "a", updates |-> 0]>>
    /\ last = NoRequest

\* the requests of the variable endpoints
StoreRequest ==
    \/ \E u \in Users, e \in Envs, k \in Keys, v \in Values \cup {None} :
           VariableCreate(u, e, k, v)
    \/ \E u \in Users, id \in 1..MaxVarId, k \in Keys \cup {NoKey},
          e \in Envs \cup {NoEnv}, v \in Values \cup {None} :
           VariableUpdate(u, id, k, e, v)
    \/ \E u \in Users, id \in 1..MaxVarId : VariableDestroy(u, id)
    \/ \E u \in Users, id \in 1..MaxVarId : VariableRetrieve(u, id)
    \/ \E u \in Users, e \in Envs : EnvironmentVariableList(u, e)
    \/ \E u \in Users, e \in Envs, fmt \in ExportFormats \cup {"xml"} :
           Export(u, e, fmt)

\* a request is taken only when the previous one has been answered
Next ==
    \/ last = NoRequest /\ StoreRequest
    \/ Respond

Spec == Init /\ [][Next]_vars

----------------------------------------------------------------------------
(* Properties of the variable store (Spec) *)

\* the role of the requester of `last` in the organization of its environment
LastRole == RoleOf(last.user, EnvOrg(last.environment))

\* the row of the environment of `last` that holds key k
LastRow(k) == CHOOSE r \in VarsOf(last.environment) : r.key = k

\* C1: a viewer who reads a variable (retrieve or list) is shown the Hidden
\* marker and never the plaintext; an admin or editor of the owning
\* organization is shown exactly the plaintext that was last written.
C1_ReadIsGatedByRole ==
    (last.op \in {"retrieve", "list"} /\ last.status = 200) =>
        \A i \in DOMAIN last.body :
            LET shown == last.body[i][2]
                written == hist[LastRow(last.body[i][1]).id].plain
            IN /\ LastRole = "viewer" => shown = HIDDEN /\ shown # written
               /\ LastRole \in {"admin", "editor"} => shown = written

\* a viewer has retrieved a variable whose value an update had replaced
C1_Witness ==
    /\ last.op = "retrieve"
    /\ last.status = 200
    /\ LastRole = "viewer"
    /\ hist[last.id].updates = 1
    /\ hist[last.id].plain = "b"
    /\ last.body[1][2] = HIDDEN

\* C2: when the caller of an export is a viewer, every value in the exported
\* body is the HIDDEN marker, in each of the three formats.
C2_ViewerExportIsHidden ==
    (last.op = "export" /\ last.status = 200 /\ LastRole = "viewer") =>
        \A i \in DOMAIN last.body : last.body[i][2] = HIDDEN

\* C3: a create, update, delete or import request from a viewer or a
\* non-member of organization O is denied and leaves the variables of O
\* unchanged.
C3_NonWritersChangeNothing ==
    [][\A o \in Orgs :
          (/\ last'.op \in {"create", "update", "destroy", "import"}
           /\ RoleOf(last'.user, o) \in {"viewer", NoMember})
          => VarsOfOrg(o)' = VarsOfOrg(o)]_vars

\* C4: after N successful value updates a variable has exactly N version
\* rows, numbered 1..N.
C4_VersionsRecordUpdates ==
    \A r \in variables :
        /\ Cardinality(VersionsOf(r.id)) = hist[r.id].updates
        /\ {v.version_number : v \in VersionsOf(r.id)} = 1..hist[r.id].updates

\* C5: a create request whose (environment, key) already exists fails and
\* writes nothing: variables (so the existing row's sealed value and
\* metadata), versions and audit log are unchanged; when the requester may
\* write to the environment and the key is well-formed, the error is the
\* duplicate-key error.
C5_DuplicateCreateWritesNothing ==
    [][(/\ last'.op = "create"
        /\ RowsAt(last'.environment, last'.attrs.key) # {})
       => (/\ last'.status = 400
           /\ variables' = variables
           /\ versions' = versions
           /\ audit' = audit
           /\ (/\ IsWriterRole(RoleOf(last'.user, EnvOrg(last'.environment)))
               /\ ~KeyRejected(last'.attrs.key))
              => last'.error = "duplicate_key")]_vars

\* a create of a key the environment already holds has been refused
C5_Witness ==
    /\ last.op = "create"
    /\ last.status = 400
    /\ last.error = "duplicate_key"
    /\ IsWriterRole(LastRole)
    /\ RowsAt(last.environment, last.attrs.key) # {}

----------------------------------------------------------------------------
\* the requests of the import endpoint, with the list endpoint to read back
ImportRequest ==
    \/ \E u \in Users, e \in Envs, fmt \in ImportFormats,
          ow \in OverwriteInputs, data \in ImportDocs :
           Import(u, e, fmt, ow, data)
    \/ \E u \in Users, e \in Envs : EnvironmentVariableList(u, e)

NextImport ==
    \/ last = NoRequest /\ ImportRequest
    \/ Respond

SpecImport == Init /\ [][NextImport]_vars

----------------------------------------------------------------------------
(* Properties of the import endpoint (SpecImport) *)

\* an import request of a member who may write, whose data passes validation
AdmittedImport(req) ==
    /\ req.op = "import"
    /\ IsWriterRole(RoleOf(req.user, EnvOrg(req.environment)))
    /\ \A k \in DOMAIN req.data : MatchesImportKey(k)
    /\ \A k, q \in DOMAIN req.data : Lower(k) = Lower(q) => k = q

\* C6: an import that does not ask for overwrite (flag absent, false, or the
\* form text 'false') and that carries a key the environment already holds is
\* rejected with 409 listing exactly the conflicting keys, and writes nothing.
C6_ConflictWithoutOverwriteRejected ==
    [][(/\ AdmittedImport(last')
        /\ last'.overwrite \in {PyFalse, TextFalse}
        /\ \E k \in DOMAIN last'.data : RowsAt(last'.environment, k) # {})
       => (/\ last'.status = 409
           /\ last'.conflicts =
                 {k \in DOMAIN last'.data : RowsAt(last'.environment, k) # {}}
           /\ variables' = variables
           /\ versions' = versions
           /\ audit' = audit)]_vars

\* C7: an import with overwrite=true whose values are all non-empty updates
\* every key that exists in place, creates every other key, reports
\* updated = existing keys, imported = new keys, failed = 0, and every key
\* then reads back as its imported value.
C7_OverwriteImportWritesEveryKey ==
    [][(/\ AdmittedImport(last')
        /\ last'.overwrite = PyTrue
        /\ \A k \in DOMAIN last'.data : last'.data[k] # "")
       => LET e == last'.environment
              data == last'.data
              existing == {k \in DOMAIN data : RowsAt(e, k) # {}}
          IN /\ last'.status = 200
             /\ last'.updated = Cardinality(existing)
             /\ last'.imported = Cardinality(DOMAIN data \ existing)
             /\ last'.failed = {}
             /\ \A k \in DOMAIN data :
                   \E r \in variables' :
                       /\ r.environment = e
                       /\ r.key = k
                       /\ ~DecryptFails(r.encrypted_value)
                       /\ Decrypted(r.encrypted_value) = data[k]
                       /\ k \in existing => r.id \in {q.id : q \in RowsAt(e, k)}
                       /\ k \notin existing => r.id >= nextId
             /\ Cardinality(variables') =
                    Cardinality(variables) + Cardinality(DOMAIN data \ existing)]_vars

\* an overwrite import has updated one existing key and created one new key
C7_Witness ==
    /\ last.op = "import"
    /\ last.status = 200
    /\ last.overwrite = PyTrue
    /\ last.updated = 1
    /\ last.imported = 1
    /\ last.failed = {}
    /\ \A k \in DOMAIN last.data :
          Decrypted(LastRow(k).encrypted_value) = last.data[k]

\* C8: an import whose parsed keys contain two keys equal ignoring case is
\* rejected with the duplicate-key validation error, in each format, and
\* writes nothing.
C8_CaseDuplicateImportRejected ==
    [][(/\ last'.op = "import"
        /\ IsWriterRole(RoleOf(last'.user, EnvOrg(last'.environment)))
        /\ \E k, q \in DOMAIN last'.data : k # q /\ Lower(k) = Lower(q))
       => (/\ last'.status = 400
           /\ last'.error = "duplicate_keys"
           /\ variables' = variables
           /\ versions' = versions
           /\ audit' = audit)]_vars

\* an import carrying F and f has been refused
C8_Witness ==
    /\ last.op = "import"
    /\ last.format = "yaml"
    /\ last.error = "duplicate_keys"
    /\ {KeyF, Keyf} \subseteq DOMAIN last.data

----------------------------------------------------------------------------
(* Organizations, memberships and invitations.  The AuditLog row and the     *)
(* notification task these handlers emit are not part of the state kept     *)
(* here: no handler reads them back.                                         *)

\* the member limit of invite_member
MemberLimit == 100

\* OrganizationMembership.objects.filter(organization=o)
MembersOf(o) == {u \in DOMAIN members[o] : members[o][u] # NoMember}

\* OrganizationMembership.objects.filter(organization=o, role='admin').count()
AdminCount(o) ==
    Cardinality({u \in DOMAIN members[o] : members[o][u] = "admin"})

\* OrganizationInvitation rows for (organization, invitee_email)
InvitationsFor(o, email) ==
    {i \in invitations : i.organization = o /\ i.invitee = email}

\* OrganizationInvitation.can_be_accepted
can_be_accepted(i) == i.status = "pending" /\ ~i.expired

\* OrganizationViewSet.get_queryset and HasOrganizationPermission for the
\* member actions: "" when the request passes, else the error
OrganizationGate(u, o) ==
    IF RoleOf(u, o) = NoMember THEN "not_found"
    ELSE IF RoleOf(u, o) # "admin" THEN "permission_denied"
    ELSE ""

GateStatus(error) == IF error = "not_found" THEN 404 ELSE 403


\* the member actions without the self-modification test
IsSelf_Never(u, target) == FALSE

\* update_member_role / remove_member: the target is the requester
IsSelf(u, target) == target = u

\* update_member_role: the request would take the role from the last admin
DemotesLastAdmin(o, target, new_role) ==
    /\ members[o][target] = "admin"
    /\ new_role # "admin"
    /\ AdminCount(o) <= 1

\* remove_member: the request would remove the last admin
RemovesLastAdmin(o, target) ==
    /\ members[o][target] = "admin"
    /\ AdminCount(o) <= 1


\* perform_create leaving the creator's membership at the default role
OrganizationCreate_DefaultRole(u, o) ==
    /\ last = NoRequest
    /\ o \notin orgs
    /\ orgs' = orgs \cup {o}
    /\ members' = [members EXCEPT ![o][u] = "viewer"]
    /\ last' = [Request("create_organization", u) EXCEPT
                    !.organization = o, !.status = 201]
    /\ UNCHANGED <<invitations, environments, variables, versions, audit, nextId, hist>>

\* POST /organizations/ : OrganizationViewSet.perform_create
OrganizationCreate(u, o) ==
    /\ last = NoRequest
    /\ o \notin orgs
    /\ orgs' = orgs \cup {o}
    /\ members' = [members EXCEPT ![o][u] = "admin"]
    /\ last' = [Request("create_organization", u) EXCEPT
                    !.organization = o, !.status = 201]
    /\ UNCHANGED <<invitations, environments, variables, versions, audit, nextId, hist>>

\* POST /organizations/{o}/invite_member/
invite_member(u, o, email, role) ==
    /\ last = NoRequest
    /\ o \in orgs
    /\ LET req == [Request("invite_member", u) EXCEPT
                       !.organization = o, !.target = email, !.role = role]
           pending == {i \in InvitationsFor(o, email) : i.status = "pending"}
           cancelled == {[i EXCEPT !.status = "cancelled"] : i \in pending}
           fresh == [organization |-> o, invitee |-> email,
                     role |-> role, status |-> "pending", expired |-> FALSE]
       IN IF OrganizationGate(u, o) # ""
          THEN Reject(req, GateStatus(OrganizationGate(u, o)),
                      OrganizationGate(u, o))
          ELSE IF role \notin Roles THEN Reject(req, 400, "invalid_role")
          ELSE IF Cardinality(MembersOf(o)) >= MemberLimit
               THEN Reject(req, 400, "member_limit")
          ELSE IF email \in MembersOf(o) THEN Reject(req, 400, "already_member")
          ELSE IF \E i \in pending : ~i.expired
               THEN Reject(req, 400, "pending_invitation")
          ELSE IF InvitationsFor(o, email) # {}
               \* unique_together (organization, invitee_email): the create
               \* raises, the atomic block rolls the cancellation back
               THEN Reject(req, 500, "server_error")
          ELSE /\ invitations' = (invitations \ pending) \cup cancelled \cup {fresh}
               /\ last' = [req EXCEPT !.status = 201]
               /\ UNCHANGED <<orgs, members, environments, variables, versions, audit,
                              nextId, hist>>

\* POST /auth/invitations/accept/ with the token of the invitation of
\* organization o to invitee
accept_organization_invitation(u, o, invitee) ==
    /\ last = NoRequest
    /\ InvitationsFor(o, invitee) # {}
    /\ LET inv == CHOOSE i \in InvitationsFor(o, invitee) : TRUE
           req == [Request("accept_invitation", u) EXCEPT
                       !.organization = o, !.target = invitee]
       IN IF ~can_be_accepted(inv)
          THEN IF inv.expired
               THEN /\ invitations' = (invitations \ {inv})
                                      \cup {[inv EXCEPT !.status = "expired"]}
                    /\ last' = [req EXCEPT !.status = 400, !.error = "expired"]
                    /\ UNCHANGED <<orgs, members, environments, variables, versions, audit,
                                   nextId, hist>>
               ELSE Reject(req, 400, "no_longer_valid")
          ELSE IF u # inv.invitee THEN Reject(req, 400, "wrong_email")
          ELSE IF u \in MembersOf(o) THEN Reject(req, 400, "already_member")
          ELSE /\ members' = [members EXCEPT ![o][u] = inv.role]
               /\ invitations' = (invitations \ {inv})
                                 \cup {[inv EXCEPT !.status = "accepted"]}
               /\ last' = [req EXCEPT !.status = 200, !.role = inv.role]
               /\ UNCHANGED <<orgs, environments, variables, versions, audit, nextId, hist>>

\* PATCH /organizations/{o}/update_member_role/
update_member_role(u, o, target, new_role) ==
    /\ last = NoRequest
    /\ o \in orgs
    /\ LET req == [Request("update_member_role", u) EXCEPT
                       !.organization = o, !.target = target, !.role = new_role]
       IN IF OrganizationGate(u, o) # ""
          THEN Reject(req, GateStatus(OrganizationGate(u, o)),
                      OrganizationGate(u, o))
          ELSE IF new_role \notin Roles THEN Reject(req, 400, "invalid_role")
          ELSE IF target \notin MembersOf(o) THEN Reject(req, 404, "not_a_member")
          ELSE IF IsSelf(u, target) THEN Reject(req, 400, "self_modification")
          ELSE IF DemotesLastAdmin(o, target, new_role)
               THEN Reject(req, 400, "last_admin")
          ELSE IF members[o][target] = new_role
               THEN Reject(req, 200, "")
          ELSE /\ members' = [members EXCEPT ![o][target] = new_role]
               /\ last' = [req EXCEPT !.status = 200]
               /\ UNCHANGED <<orgs, invitations, environments, variables, versions, audit,
                              nextId, hist>>

\* DELETE /organizations/{o}/remove_member/
remove_member(u, o, target) ==
    /\ last = NoRequest
    /\ o \in orgs
    /\ LET req == [Request("remove_member", u) EXCEPT
                       !.organization = o, !.target = target]
       IN IF OrganizationGate(u, o) # ""
          THEN Reject(req, GateStatus(OrganizationGate(u, o)),
                      OrganizationGate(u, o))
          ELSE IF target \notin MembersOf(o) THEN Reject(req, 404, "not_a_member")
          ELSE IF IsSelf(u, target) THEN Reject(req, 400, "self_modification")
          ELSE IF RemovesLastAdmin(o, target) THEN Reject(req, 400, "last_admin")
          ELSE /\ members' = [members EXCEPT ![o][target] = NoMember]
               /\ last' = [req EXCEPT !.status = 200, !.role = members[o][target]]
               /\ UNCHANGED <<orgs, invitations, environments, variables, versions, audit,
                              nextId, hist>>

\* the clock passes the expires_at of a pending invitation
InvitationExpires(o, invitee) ==
    /\ last = NoRequest
    /\ \E i \in InvitationsFor(o, invitee) :
          /\ i.status = "pending"
          /\ ~i.expired
          /\ invitations' = (invitations \ {i}) \cup {[i EXCEPT !.expired = TRUE]}
    /\ UNCHANGED <<orgs, members, environments, variables, versions, audit, nextId, hist, last>>

\* an empty database
InitMembership ==
    /\ orgs = {}
    /\ members = [o \in Orgs |-> [u \in Users |-> NoMember]]
    /\ invitations = {}
    /\ environments = {}
    /\ variables = {}
    /\ versions = {}
    /\ audit = <<>>
    /\ nextId = 1
    /\ hist = <<>>
    /\ last = NoRequest

\* the organizations the membership requests address
MembershipOrgs == {"o1"}

MembershipRequest ==
    \/ \E u \in Users, o \in MembershipOrgs : OrganizationCreate(u, o)
    \/ \E u \in Users, o \in MembershipOrgs, email \in Users, role \in Roles \cup {"owner"} :
           invite_member(u, o, email, role)
    \/ \E u \in Users, o \in MembershipOrgs, invitee \in Users :
           accept_organization_invitation(u, o, invitee)
    \/ \E u \in Users, o \in MembershipOrgs, target \in Users, role \in Roles \cup {"owner"} :
           update_member_role(u, o, target, role)
    \/ \E u \in Users, o \in MembershipOrgs, target \in Users : remove_member(u, o, target)
    \/ \E o \in MembershipOrgs, invitee \in Users : InvitationExpires(o, invitee)

NextMembership ==
    \/ last = NoRequest /\ MembershipRequest
    \/ Respond

SpecMembership == InitMembership /\ [][NextMembership]_vars

----------------------------------------------------------------------------
(* Properties of the membership operations (SpecMembership) *)

\* C9: after any sequence of completed requests every existing organization
\* has at least one admin membership.
C9_EveryOrganizationHasAnAdmin ==
    \A o \in orgs : AdminCount(o) >= 1

\* an admin has been removed from an organization, which keeps one admin
C9_Witness ==
    /\ last.op = "remove_member"
    /\ last.status = 200
    /\ last.role = "admin"
    /\ AdminCount(last.organization) = 1

\* the request that became `last` targets the only admin of its organization
\* and asks to remove it or to give it a non-admin role
TargetsOnlyAdmin ==
    /\ \/ last'.op = "remove_member"
       \/ last'.op = "update_member_role" /\ last'.role \in {"editor", "viewer"}
    /\ members[last'.organization][last'.target] = "admin"
    /\ AdminCount(last'.organization) = 1

----------------------------------------------------------------------------
(* Properties of the audit log *)

\* the AuditLog action a request's operation is recorded under
AuditActionOf(op) == IF op = "destroy" THEN "delete" ELSE op

\* C12: every successful variable create, update and delete, every export and
\* every import appends exactly one audit entry, of action create, update,
\* delete, export and import respectively (target_type 'variable' for the
\* three variable operations).
C12_EveryOperationAudited ==
    [][(/\ last'.op \in {"create", "update", "destroy", "export", "import"}
        /\ last'.status \in {200, 201, 204})
       => (/\ Len(audit') = Len(audit) + 1
           /\ SubSeq(audit', 1, Len(audit)) = audit
           /\ audit'[Len(audit')].action = AuditActionOf(last'.op)
           /\ last'.op \in {"create", "update", "destroy"}
                 => audit'[Len(audit')].target_type = "variable")]_vars

\* the requests that write the store or the audit log, for an admin of each
\* organization (u3 is also a viewer of the other one)
AuditedUsers == {"u1", "u3"}

AuditedRequest ==
    \/ \E u \in AuditedUsers, e \in Envs, v \in {"", "b"} :
           VariableCreate(u, e, KeyB, v)
    \/ \E u \in AuditedUsers, id \in 1..MaxVarId, k \in {NoKey, KeyB},
          v \in {None, "b"} :
           VariableUpdate(u, id, k, NoEnv, v)
    \/ \E u \in AuditedUsers, id \in 1..MaxVarId : VariableDestroy(u, id)
    \/ \E u \in AuditedUsers, e \in Envs, fmt \in ExportFormats :
           Export(u, e, fmt)
    \/ \E u \in AuditedUsers, e \in Envs, fmt \in ImportFormats,
          ow \in {PyFalse, PyTrue}, data \in ImportDocs :
           Import(u, e, fmt, ow, data)

NextAudited ==
    \/ last = NoRequest /\ AuditedRequest
    \/ Respond

SpecAudited == Init /\ [][NextAudited]_vars

\* the plaintexts a request may submit or a variable may hold
Secrets == Values \ {""}

\* the names an audit entry may carry besides keys, counts and flags
Projects == {EnvProject(e) : e \in Envs}

\* the fields the details of an entry may have, with what each may hold:
\* a key, an environment or project name, a count, a flag, a format
DetailsAreMetadata(d) ==
    /\ DOMAIN d \subseteq {"key", "environment", "project", "value_updated",
                           "had_value", "format", "variable_count",
                           "failed_decryptions", "imported_count",
                           "updated_count", "failed_imports",
                           "overwrite_enabled"}
    /\ "key" \in DOMAIN d => d.key \in Keys
    /\ "environment" \in DOMAIN d => d.environment \in Envs \ Secrets
    /\ "project" \in DOMAIN d => d.project \in Projects \ Secrets
    /\ "value_updated" \in DOMAIN d => d.value_updated \in BOOLEAN
    /\ "had_value" \in DOMAIN d => d.had_value \in BOOLEAN
    /\ "format" \in DOMAIN d => d.format \in (ExportFormats \cup ImportFormats) \ Secrets
    /\ "variable_count" \in DOMAIN d => d.variable_count \in Nat
    /\ "failed_decryptions" \in DOMAIN d => d.failed_decryptions \subseteq Keys
    /\ "imported_count" \in DOMAIN d => d.imported_count \in Nat
    /\ "updated_count" \in DOMAIN d => d.updated_count \in Nat
    /\ "failed_imports" \in DOMAIN d => d.failed_imports \in Nat
    /\ "overwrite_enabled" \in DOMAIN d => d.overwrite_enabled \in OverwriteInputs \ Secrets

\* C13: no audit entry's details contain a secret value: after any sequence
\* of variable create, update and delete, export and import (imports with
\* failed keys included) every details field holds a key, a name, a count, a
\* flag or a format, and none holds a submitted or stored plaintext.
C13_AuditDetailsHoldNoSecret ==
    \A i \in DOMAIN audit : DetailsAreMetadata(audit[i].details)

\* an import in which one key failed and one was created has been recorded
C13_Witness ==
    \E i \in DOMAIN audit :
        /\ audit[i].action = "import"
        /\ audit[i].details.failed_imports = 1
        /\ audit[i].details.imported_count = 1

----------------------------------------------------------------------------
(* Dotenv text: generate_env_content and parse_env_file, on sequences of    *)
(* characters                                                                *)

\* the longest value of a dotenv input
MaxValueLen == 2

SP == " "
TAB == "\t"
NL == "\n"
DQ == "\""
SQ == "'"
BS == "\\"
EQ == "="
HASH == "#"

\* c in s
Contains(s, c) == \E i \in 1..Len(s) : s[i] = c

\* s.startswith(c), s.endswith(c) for one character c
StartsWith(s, c) == Len(s) >= 1 /\ s[1] = c
EndsWith(s, c) == Len(s) >= 1 /\ s[Len(s)] = c

\* s.replace(pat, rep): the occurrences of pat from the left, not overlapping
RECURSIVE Replace(_, _, _)
Replace(s, pat, rep) ==
    IF Len(s) < Len(pat) THEN s
    ELSE IF SubSeq(s, 1, Len(pat)) = pat
         THEN rep \o Replace(SubSeq(s, Len(pat) + 1, Len(s)), pat, rep)
    ELSE <<Head(s)>> \o Replace(Tail(s), pat, rep)

\* the characters str.strip() removes
IsSpace(c) == c \in {SP, TAB, NL}

RECURSIVE LStrip(_)
LStrip(s) == IF s # <<>> /\ IsSpace(Head(s)) THEN LStrip(Tail(s)) ELSE s

RECURSIVE RStrip(_)
RStrip(s) ==
    IF s # <<>> /\ IsSpace(s[Len(s)]) THEN RStrip(SubSeq(s, 1, Len(s) - 1))
    ELSE s

\* s.strip()
Strip(s) == RStrip(LStrip(s))

\* the position of the first c in s, 0 when there is none
FirstIndex(s, c) ==
    IF Contains(s, c)
    THEN CHOOSE i \in 1..Len(s) : s[i] = c /\ \A j \in 1..(i - 1) : s[j] # c
    ELSE 0

\* s.splitlines()
RECURSIVE SplitLines(_)
SplitLines(s) ==
    IF s = <<>> THEN <<>>
    ELSE IF FirstIndex(s, NL) = 0 THEN <<s>>
    ELSE <<SubSeq(s, 1, FirstIndex(s, NL) - 1)>>
         \o SplitLines(SubSeq(s, FirstIndex(s, NL) + 1, Len(s)))

\* one line of generate_env_content
EnvLine(key, value) ==
    IF Contains(value, SP) \/ Contains(value, DQ) \/ Contains(value, NL)
    THEN key \o <<EQ, DQ>>
         \o Replace(Replace(value, <<BS>>, <<BS, BS>>), <<DQ>>, <<BS, DQ>>)
         \o <<DQ>>
    ELSE key \o <<EQ>> \o value

\* '\n'.join(lines)
RECURSIVE Join(_)
Join(lines) ==
    IF lines = <<>> THEN <<>>
    ELSE IF Len(lines) = 1 THEN lines[1]
    ELSE lines[1] \o <<NL>> \o Join(Tail(lines))

\* generate_env_content(env_data)
generate_env_content(env_data) ==
    LET keys == SortedKeys(DOMAIN env_data)
    IN Join([i \in 1..Len(keys) |-> EnvLine(keys[i], env_data[keys[i]])]) \o <<NL>>

\* the quoted-value handling of parse_env_file
Unquoted(value) ==
    IF /\ Len(value) >= 2
       /\ \/ StartsWith(value, DQ) /\ EndsWith(value, DQ)
          \/ StartsWith(value, SQ) /\ EndsWith(value, SQ)
    THEN Replace(Replace(Replace(SubSeq(value, 2, Len(value) - 1),
                                 <<BS, DQ>>, <<DQ>>),
                         <<BS, SQ>>, <<SQ>>),
                 <<BS, BS>>, <<BS>>)
    ELSE value

\* the loop body of parse_env_file: env_vars after one line
ParseLine(env_vars, raw) ==
    LET line == Strip(raw)
        eq == FirstIndex(line, EQ)
        key == Strip(SubSeq(line, 1, eq - 1))
        value == Strip(SubSeq(line, eq + 1, Len(line)))
    IN IF line = <<>> \/ StartsWith(line, HASH) THEN env_vars
       ELSE IF eq = 0 THEN env_vars
       ELSE IF key = <<>> THEN env_vars
       ELSE IF ~MatchesImportKey(key) THEN env_vars
       ELSE [k \in DOMAIN env_vars \cup {key} |->
                IF k = key THEN Unquoted(value) ELSE env_vars[k]]

RECURSIVE ParseLines(_, _)
ParseLines(env_vars, lines) ==
    IF lines = <<>> THEN env_vars
    ELSE ParseLines(ParseLine(env_vars, Head(lines)), Tail(lines))

\* parse_env_file(content)
parse_env_file(content) == ParseLines(<<>>, SplitLines(content))

\* the characters of the values: a letter, the whitespace characters, the two
\* quote characters and the backslash
DotenvChars == {"b", SP, TAB, NL, DQ, SQ, BS}

\* the values an environment may hold, the empty one included
DotenvValues == UNION {[1..n -> DotenvChars] : n \in 0..MaxValueLen}

\* the key/value sets an environment may hold: one key, or two keys
DotenvInputs ==
    {KeyF :> v : v \in DotenvValues}
    \cup {KeyF :> v @@ KeyB :> w :
             v \in DotenvValues, w \in {q \in DotenvValues : Len(q) <= 1}}

\* an environment holding env_data is about to be exported
InitDotenv ==
    /\ orgs = Orgs
    /\ members = InitMembers
    /\ invitations = InitInvitations
    /\ environments = Envs
    /\ variables = {}
    /\ versions = {}
    /\ audit = <<>>
    /\ nextId = 1
    /\ hist = <<>>
    /\ \E env_data \in DotenvInputs :
          last = [NoRequest EXCEPT !.op = "dotenv", !.format = "env",
                                   !.data = env_data]

\* export_env_file, format env: the content generate_env_content returns
GenerateEnvContent ==
    /\ last.op = "dotenv"
    /\ last' = [last EXCEPT !.op = "generate_env_content",
                            !.body = generate_env_content(last.data)]
    /\ UNCHANGED <<tenancy, variables, versions, audit, nextId, hist>>

\* import_env_file, format env: the mapping parse_env_file returns for the
\* exported content
ParseEnvFile ==
    /\ last.op = "generate_env_content"
    /\ last' = ("parsed" :> parse_env_file(last.body))
               @@ [last EXCEPT !.op = "parse_env_file", !.overwrite = PyTrue]
    /\ UNCHANGED <<tenancy, variables, versions, audit, nextId, hist>>

NextDotenv == GenerateEnvContent \/ ParseEnvFile

SpecDotenv == InitDotenv /\ [][NextDotenv]_vars

\* C14: dotenv round trip: for every key/value set an environment holds,
\* the text generate_env_content exports parses back, on the import path, to
\* exactly the same key/value mapping.
C14_DotenvRoundTrip ==
    last.op = "parse_env_file" => last.parsed = last.data

----------------------------------------------------------------------------
(* Export of an environment some of whose ciphertexts cannot be decrypted *)

\* the column of a row whose ciphertext Fernet no longer accepts (written
\* under another ENCRYPTION_KEY, or damaged in the database)
Undecryptable(enc) == [enc EXCEPT !.alg = "invalid"]

\* the database after u1 has imported F=a, B=b, f=a into e1
InitExport ==
    /\ orgs = Orgs
    /\ members = InitMembers
    /\ invitations = InitInvitations
    /\ environments = Envs
    /\ variables =
          {[id |-> 1, key |-> KeyB, environment |-> "e1",
            encrypted_value |-> Encrypted("b"), created_by |-> "u1"],
           [id |-> 2, key |-> KeyF, environment |-> "e1",
            encrypted_value |-> Encrypted("a"), created_by |-> "u1"],
           [id |-> 3, key |-> Keyf, environment |-> "e1",
            encrypted_value |-> Encrypted("a"), created_by |-> "u1"]}
    /\ versions = {}
    /\ audit = <<AuditEntry("u1", "import", "environment", EnvPk("e1"),
                            [format |-> "json",
                             imported_count |-> 3,
                             updated_count |-> 0,
                             failed_imports |-> 0,
                             overwrite_enabled |-> PyFalse,
                             environment |-> "e1",
                             project |-> EnvProject("e1")])>>
    /\ nextId = 4
    /\ hist = <<[plain |-> "b", updates |-> 0],
                [plain |-> "a", updates |-> 0],
                [plain |-> "a", updates |-> 0]>>
    /\ last = NoRequest

\* the stored ciphertext of one variable stops being decryptable
CiphertextInvalidated(id) ==
    /\ last = NoRequest
    /\ \E r \in variables :
          /\ r.id = id
          /\ ~DecryptFails(r.encrypted_value)
          /\ variables' = (variables \ {r})
                \cup {[r EXCEPT !.encrypted_value = Undecryptable(@)]}
    /\ UNCHANGED <<tenancy, versions, audit, nextId, hist, last>>

NextExport ==
    \/ \E id \in 1..MaxVarId : CiphertextInvalidated(id)
    \/ \E u \in Users, e \in Envs, fmt \in ExportFormats \cup {"xml"} :
           Export(u, e, fmt)
    \/ Respond

SpecExport == InitExport /\ [][NextExport]_vars

\* the keys of the environment of `last` whose ciphertext cannot be decrypted
LastFailing ==
    {r.key : r \in {q \in VarsOf(last.environment) :
                       DecryptFails(q.encrypted_value)}}

\* C15: a decryption failure of individual variables never aborts an export:
\* whatever subset of the environment's ciphertexts cannot be decrypted, the
\* export succeeds, lists every key, carries the DECRYPTION_ERROR marker for
\* exactly the failing keys and the written plaintext for the others, and
\* records exactly the failing keys in the audit entry and the warning header.
C15_ExportSurvivesDecryptionFailure ==
    (last.op = "export" /\ last.format \in ExportFormats
        /\ RoleOf(last.user, EnvOrg(last.environment)) # NoMember)
    => /\ last.status = 200
       /\ {last.body[i][1] : i \in DOMAIN last.body}
             = {r.key : r \in VarsOf(last.environment)}
       /\ Len(last.body) = Cardinality(VarsOf(last.environment))
       /\ \A i \in DOMAIN last.body :
             last.body[i][2] =
                IF last.body[i][1] \in LastFailing THEN DECRYPTION_ERROR
                ELSE hist[LastRow(last.body[i][1]).id].plain
       /\ last.failed = LastFailing
       /\ audit[Len(audit)].action = "export"
       /\ audit[Len(audit)].details.failed_decryptions = LastFailing

\* an export has succeeded in which one of three variables failed to decrypt
C15_Witness ==
    /\ last.op = "export"
    /\ last.status = 200
    /\ Len(last.body) = 3
    /\ last.failed = {KeyF}
    /\ \E i \in DOMAIN last.body : last.body[i] = <<KeyF, DECRYPTION_ERROR>>
    /\ \E i \in DOMAIN last.body : last.body[i] = <<KeyB, "b">>

----------------------------------------------------------------------------
(* Stored keys *)

\* C16: in every reachable state every stored variable's key matches
\* ^[A-Z][A-Z0-9_]*$, whichever path wrote it (create, update, or import in
\* env, json or yaml format).
C16_StoredKeysMatchConvention ==
    \A r \in variables : MatchesVariableKey(r.key)

----------------------------------------------------------------------------
(* Deleting variables and environments *)

\* DELETE /environments/{e}/ : EnvironmentViewSet.get_queryset,
\* has_object_permission, and the inherited perform_destroy
\* (instance.delete(), which cascades to the variables and their versions)
EnvironmentDestroy(u, e) ==
    /\ last = NoRequest
    /\ LET req == [Request("destroy_environment", u) EXCEPT !.environment = e]
       IN IF e \notin environments \/ RoleOf(u, EnvOrg(e)) = NoMember
          THEN Reject(req, 404, "not_found")
          ELSE IF ~HasEnvironmentPermission(u, EnvOrg(e), "destroy", FALSE)
               THEN Reject(req, 403, "permission_denied")
          ELSE /\ environments' = environments \ {e}
               /\ variables' = variables \ VarsOf(e)
               /\ versions' = versions \ UNION {VersionsOf(r.id) : r \in VarsOf(e)}
               /\ last' = [req EXCEPT !.status = 204]
               /\ UNCHANGED <<orgs, members, invitations, audit, nextId, hist>>

DeleteRequest ==
    \/ \E u \in Users, e \in Envs : EnvironmentDestroy(u, e)
    \/ \E u \in Users, id \in 1..MaxVarId : VariableDestroy(u, id)

NextDelete ==
    \/ last = NoRequest /\ DeleteRequest
    \/ Respond

SpecDelete == InitExport /\ [][NextDelete]_vars

\* the step is a delete request for an existing variable or environment from
\* a user whose role in the owning organization is role
DeleteBy(op, role) ==
    /\ last'.op = op
    /\ op = "destroy_environment" => last'.environment \in environments
    /\ RoleOf(last'.user, EnvOrg(last'.environment)) = role

\* C17 as stated: delete is granted to exactly admin and editor, for an
\* Environment as well as for a Variable; viewer and non-member are denied.
C17_DeleteGrantedToAdminAndEditor ==
    [][\A op \in {"destroy", "destroy_environment"}, role \in Roles \cup {NoMember} :
          DeleteBy(op, role) =>
             (last'.status = 204 <=> role \in {"admin", "editor"})]_vars

\* C17 as the code has it: delete of a Variable is granted to exactly admin
\* and editor, delete of an Environment to admin only; a denied request
\* leaves environments and variables unchanged.
C17_EnvironmentDeleteIsAdminOnly ==
    [][\A op \in {"destroy", "destroy_environment"}, role \in Roles \cup {NoMember} :
          DeleteBy(op, role) =>
             /\ op = "destroy" =>
                   (last'.status = 204 <=> role \in {"admin", "editor"})
             /\ op = "destroy_environment" =>
                   (last'.status = 204 <=> role = "admin")
             /\ last'.status # 204 =>
                   /\ last'.status \in {403, 404}
                   /\ environments' = environments
                   /\ variables' = variables]_vars

\* an editor has asked to delete an environment of its organization and been
\* denied
C17_Witness ==
    /\ last.op = "destroy_environment"
    /\ LastRole = "editor"
    /\ last.status = 403
    /\ last.environment \in environments
    /\ VarsOf(last.environment) # {}

----------------------------------------------------------------------------
(* The member limit *)

\* 98 further users, already members of o1
Crowd ==
    {
     "m01", "m02", "m03", "m04", "m05", "m06", "m07", "m08",
     "m09", "m10", "m11", "m12", "m13", "m14", "m15", "m16",
     "m17", "m18", "m19", "m20", "m21", "m22", "m23", "m24",
     "m25", "m26", "m27", "m28", "m29", "m30", "m31", "m32",
     "m33", "m34", "m35", "m36", "m37", "m38", "m39", "m40",
     "m41", "m42", "m43", "m44", "m45", "m46", "m47", "m48",
     "m49", "m50", "m51", "m52", "m53", "m54", "m55", "m56",
     "m57", "m58", "m59", "m60", "m61", "m62", "m63", "m64",
     "m65", "m66", "m67", "m68", "m69", "m70", "m71", "m72",
     "m73", "m74", "m75", "m76", "m77", "m78", "m79", "m80",
     "m81", "m82", "m83", "m84", "m85", "m86", "m87", "m88",
     "m89", "m90", "m91", "m92", "m93", "m94", "m95", "m96",
     "m97", "m98" }

\* o1 with 99 memberships: its creator u1 and the Crowd, who accepted
\* invitations as viewers; u2 and u3 are not members
InitLimit ==
    /\ orgs = {"o1"}
    /\ members = [o \in Orgs |-> [u \in Users \cup Crowd |->
                     IF o # "o1" THEN NoMember
                     ELSE IF u = "u1" THEN "admin"
                     ELSE IF u \in Crowd THEN "viewer"
                     ELSE NoMember]]
    /\ invitations = {[organization |-> "o1", invitee |-> u, role |-> "viewer",
                       status |-> "accepted", expired |-> FALSE] : u \in Crowd}
    /\ environments = {}
    /\ variables = {}
    /\ versions = {}
    /\ audit = <<>>
    /\ nextId = 1
    /\ hist = <<>>
    /\ last = NoRequest

LimitRequest ==
    \/ \E u \in Users, email \in Users, role \in Roles :
           invite_member(u, "o1", email, role)
    \/ \E u \in Users, invitee \in Users :
           accept_organization_invitation(u, "o1", invitee)
    \/ \E invitee \in Users : InvitationExpires("o1", invitee)

NextLimit ==
    \/ last = NoRequest /\ LimitRequest
    \/ Respond

SpecLimit == InitLimit /\ [][NextLimit]_vars

\* C18: an organization never has more than 100 memberships, after any
\* sequence of invite_member and accept_organization_invitation requests.
C18_MemberLimitHolds ==
    \A o \in orgs : Cardinality(MembersOf(o)) <= MemberLimit

----------------------------------------------------------------------------
(* Two update requests in flight: PATCH /variables/{id}/ is get_object (a     *)
(* read outside any transaction) followed by perform_update (the save and   *)
(* the audit row, in one transaction); no row is locked in between.          *)

Procs == {"p1", "p2"}

\* a request worker that has not taken a request
Idle == [pc |-> "idle", user |-> "", id |-> 0, key |-> NoKey, value |-> None,
         instance |-> [id |-> 0, key |-> NoKey, environment |-> NoEnv,
                       encrypted_value |-> NoCiphertext, created_by |-> ""],
         status |-> 0]

\* the database after u1 has created variable F = "a" in e1; both workers idle
InitConcurrentUpdate ==
    /\ orgs = Orgs
    /\ members = InitMembers
    /\ invitations = InitInvitations
    /\ environments = Envs
    /\ variables = {[id |-> 1, key |-> KeyF, environment |-> "e1",
                     encrypted_value |-> Encrypted("a"), created_by |-> "u1"]}
    /\ versions = {}
    /\ audit = <<AuditEntry("u1", "create", "variable", 1,
                            [key |-> KeyF, environment |-> "e1",
                             project |-> EnvProject("e1")])>>
    /\ nextId = 2
    /\ hist = <<[plain |-> "a", updates |-> 0]>>
    /\ last = [p \in Procs |-> Idle]

\* worker p takes PATCH /variables/{id}/ {key: k, value: v} from u: get_object
\* loads the row, has_object_permission and the serializer's validation run
UpdateLoad(p, u, id, k, v) ==
    /\ last[p].pc = "idle"
    /\ \E r \in variables : r.id = id
    /\ LET old == RowById(id)
           req == [Idle EXCEPT !.user = u, !.id = id, !.key = k, !.value = v,
                               !.instance = old]
           attrs == [key |-> k, environment |-> NoEnv, value |-> v]
       IN last' = [last EXCEPT ![p] =
              IF ~InQueryset(u, old)
              THEN [req EXCEPT !.pc = "done", !.status = 404]
              ELSE IF ~HasEnvironmentPermission(u, EnvOrg(old.environment),
                                                "partial_update", TRUE)
                   THEN [req EXCEPT !.pc = "done", !.status = 403]
              ELSE IF \/ k # NoKey /\ KeyRejected(k)
                      \/ validate(u, attrs, id) # ""
                      \/ ViolatesUniqueTogether([old EXCEPT !.key =
                                                   IF k = NoKey THEN @ ELSE k])
                   THEN [req EXCEPT !.pc = "done", !.status = 400]
              ELSE [req EXCEPT !.pc = "loaded"]]
    /\ UNCHANGED <<tenancy, variables, versions, audit, nextId, hist>>

\* worker p runs perform_update: serializer.save() writes every column of the
\* instance it loaded, with the submitted key and value, and the audit row is
\* added; no EnvVariableVersion row is written and nothing detects that the
\* row changed since it was loaded
UpdateSave(p) ==
    /\ last[p].pc = "loaded"
    /\ LET req == last[p]
           moved == [req.instance EXCEPT
                        !.key = IF req.key = NoKey THEN @ ELSE req.key]
           new == [moved EXCEPT
                        !.encrypted_value =
                            IF req.value = None THEN @ ELSE Encrypted(req.value)]
       IN IF req.value # None /\ EncryptFails(req.value)
          THEN /\ last' = [last EXCEPT ![p] =
                              [req EXCEPT !.pc = "done", !.status = 500]]
               /\ UNCHANGED <<tenancy, variables, versions, audit, nextId, hist>>
          ELSE /\ variables' = {r \in variables : r.id # req.id} \cup {new}
               /\ hist' = [hist EXCEPT ![req.id] =
                              IF req.value = None THEN @
                              ELSE [plain |-> req.value,
                                    updates |-> @.updates + 1]]
               /\ audit' = Append(audit,
                      AuditEntry(req.user, "update", "variable", req.id,
                                 update_details(new, req.instance, req.value)))
               /\ last' = [last EXCEPT ![p] =
                              [req EXCEPT !.pc = "done", !.status = 200]]
               /\ UNCHANGED <<tenancy, versions, nextId>>

NextConcurrentUpdate ==
    \/ \E p \in Procs, u \in Users, id \in 1..MaxVarId, k \in {NoKey, KeyB},
          v \in Values \cup {None} :
           UpdateLoad(p, u, id, k, v)
    \/ \E p \in Procs : UpdateSave(p)

SpecConcurrentUpdate == InitConcurrentUpdate /\ [][NextConcurrentUpdate]_vars

\* both workers have finished a value update of variable id that passed
\* validation
BothUpdated(id) ==
    \A p \in Procs :
        /\ last[p].pc = "done"
        /\ last[p].id = id
        /\ last[p].value # None
        /\ last[p].status \in {200, 409}

\* C19: when two update requests for the same variable interleave, either
\* both versions are recorded with distinct consecutive numbers, or one
\* request fails with a conflict and the other one's write stands.
C19_ConcurrentUpdatesSerialized ==
    \A id \in 1..MaxVarId :
        BothUpdated(id) =>
            \/ /\ \A p \in Procs : last[p].status = 200
               /\ Cardinality(VersionsOf(id)) = 2
               /\ {v.version_number : v \in VersionsOf(id)} = {1, 2}
            \/ \E p, q \in Procs :
                  /\ last[p].status = 409
                  /\ last[q].status = 200
                  /\ hist[id].plain = last[q].value

----------------------------------------------------------------------------
(* Two member requests in flight: update_member_role and remove_member read  *)
(* the target membership and the admin count first, and write afterwards in  *)
(* their own transaction; no row is locked in between.                       *)

\* a request worker that has not taken a member request
IdleMember == [pc |-> "idle", op |-> "", user |-> "", target |-> "",
               role |-> "", status |-> 0, error |-> ""]

\* o1 with two admins, u1 and u2, and a viewer u3
InitConcurrentMembers ==
    /\ orgs = {"o1"}
    /\ members = [o \in Orgs |-> [u \in Users |->
                     IF o # "o1" THEN NoMember
                     ELSE IF u \in {"u1", "u2"} THEN "admin" ELSE "viewer"]]
    /\ invitations =
          {[organization |-> "o1", invitee |-> "u2", role |-> "admin",
            status |-> "accepted", expired |-> FALSE],
           [organization |-> "o1", invitee |-> "u3", role |-> "viewer",
            status |-> "accepted", expired |-> FALSE]}
    /\ environments = {}
    /\ variables = {}
    /\ versions = {}
    /\ audit = <<>>
    /\ nextId = 1
    /\ hist = <<>>
    /\ last = [p \in Procs |-> IdleMember]

\* the answer of a member request that the checks stop, "" when they pass
MemberChecks(op, u, o, target, new_role) ==
    IF OrganizationGate(u, o) # "" THEN OrganizationGate(u, o)
    ELSE IF op = "update_member_role" /\ new_role \notin Roles THEN "invalid_role"
    ELSE IF target \notin MembersOf(o) THEN "not_a_member"
    ELSE IF IsSelf(u, target) THEN "self_modification"
    ELSE IF op = "update_member_role" /\ DemotesLastAdmin(o, target, new_role)
         THEN "last_admin"
    ELSE IF op = "remove_member" /\ RemovesLastAdmin(o, target) THEN "last_admin"
    ELSE ""

\* worker p takes a member request of u on o1 and runs its checks against the
\* rows as they are now
MemberCheck(p, op, u, target, new_role) ==
    /\ last[p].pc = "idle"
    /\ LET req == [IdleMember EXCEPT !.op = op, !.user = u, !.target = target,
                                     !.role = new_role]
           error == MemberChecks(op, u, "o1", target, new_role)
       IN last' = [last EXCEPT ![p] =
              IF error # ""
              THEN [req EXCEPT !.pc = "done", !.error = error,
                               !.status = IF error \in {"not_found", "not_a_member"}
                                          THEN 404
                                          ELSE IF error = "permission_denied"
                                               THEN 403 ELSE 400]
              ELSE IF op = "update_member_role" /\ members["o1"][target] = new_role
                   THEN [req EXCEPT !.pc = "done", !.status = 200]
              ELSE [req EXCEPT !.pc = "checked"]]
    /\ UNCHANGED <<tenancy, variables, versions, audit, nextId, hist>>

\* worker p writes: member_membership.save() with the new role, or
\* member_membership.delete()
MemberWrite(p) ==
    /\ last[p].pc = "checked"
    /\ members' = [members EXCEPT !["o1"][last[p].target] =
                      IF last[p].op = "remove_member" THEN NoMember
                      ELSE last[p].role]
    /\ last' = [last EXCEPT ![p] = [@ EXCEPT !.pc = "done", !.status = 200]]
    /\ UNCHANGED <<orgs, invitations, environments, variables, versions, audit,
                   nextId, hist>>

NextConcurrentMembers ==
    \/ \E p \in Procs, u \in Users, target \in Users, role \in Roles :
           MemberCheck(p, "update_member_role", u, target, role)
    \/ \E p \in Procs, u \in Users, target \in Users :
           MemberCheck(p, "remove_member", u, target, "")
    \/ \E p \in Procs : MemberWrite(p)

SpecConcurrentMembers == InitConcurrentMembers /\ [][NextConcurrentMembers]_vars

\* C20: when update_member_role and remove_member requests of different
\* admins interleave between their admin-count check and their write, the
\* organization never ends up with zero admin memberships.
C20_AdminSurvivesInterleaving ==
    \A o \in orgs : \E u \in Users : members[o][u] = "admin"

----------------------------------------------------------------------------
(* Two writing requests in flight: POST /variables/ is the serializer's      *)
(* validation (the existence check, outside any transaction) followed by    *)
(* perform_create (the insert and the audit row, in one transaction);       *)
(* import_env_file reads existing_vars and then runs its loop and the audit *)
(* row in one transaction.  The table's unique_together constraint is       *)
(* checked by the database at the insert.                                    *)

\* a request worker that has not taken a create or an import request
IdleWriter == [pc |-> "idle", op |-> "", user |-> "", environment |-> NoEnv,
               key |-> NoKey, value |-> None, overwrite |-> "", data |-> <<>>,
               existing |-> {}, status |-> 0, error |-> ""]

\* the environments before any variable is created; both workers idle
InitConcurrentCreate ==
    /\ orgs = Orgs
    /\ members = InitMembers
    /\ invitations = InitInvitations
    /\ environments = Envs
    /\ variables = {}
    /\ versions = {}
    /\ audit = <<>>
    /\ nextId = 1
    /\ hist = <<>>
    /\ last = [p \in Procs |-> IdleWriter]

\* worker p takes POST /variables/ {key: k, environment: e, value: v} from u
\* and runs validate_key and validate against the rows as they are now
CreateValidate(p, u, e, k, v) ==
    /\ last[p].pc = "idle"
    /\ LET attrs == [key |-> k, environment |-> e, value |-> v]
           req == [IdleWriter EXCEPT !.op = "create", !.user = u,
                                     !.environment = e, !.key = k, !.value = v]
       IN last' = [last EXCEPT ![p] =
              IF KeyRejected(k)
              THEN [req EXCEPT !.pc = "done", !.status = 400,
                               !.error = "invalid_key"]
              ELSE IF validate(u, attrs, 0) # ""
                   THEN [req EXCEPT !.pc = "done", !.status = 400,
                                    !.error = validate(u, attrs, 0)]
              ELSE [req EXCEPT !.pc = "validated"]]
    /\ UNCHANGED <<tenancy, variables, versions, audit, nextId, hist>>

\* worker p runs perform_create: the insert, which the database refuses with
\* an IntegrityError when (environment, key) exists by now (the transaction
\* is rolled back, the view answers 500), and the audit row
CreateSave(p) ==
    /\ last[p].pc = "validated"
    /\ LET req == last[p]
           value == IF req.value = None THEN "" ELSE req.value
           row == [id |-> nextId, key |-> req.key,
                   environment |-> req.environment,
                   encrypted_value |-> IF value # "" THEN Encrypted(value)
                                       ELSE NoCiphertext,
                   created_by |-> req.user]
       IN IF ViolatesUniqueTogether(row)
          THEN /\ last' = [last EXCEPT ![p] =
                              [req EXCEPT !.pc = "done", !.status = 500,
                                          !.error = "integrity_error"]]
               /\ UNCHANGED <<tenancy, variables, versions, audit, nextId, hist>>
          ELSE /\ nextId <= MaxVarId
               /\ Len(audit) < MaxAudit
               /\ variables' = variables \cup {row}
               /\ nextId' = nextId + 1
               /\ hist' = Append(hist, [plain |-> value, updates |-> 0])
               /\ audit' = Append(audit,
                      AuditEntry(req.user, "create", "variable", row.id,
                                 [key |-> req.key,
                                  environment |-> req.environment,
                                  project |-> EnvProject(req.environment)]))
               /\ last' = [last EXCEPT ![p] =
                              [req EXCEPT !.pc = "done", !.status = 201]]
               /\ UNCHANGED <<tenancy, versions>>

\* worker p takes POST /environments/{e}/import/ from u: the role test,
\* validate_env_data, and the conflict test against existing_vars, the rows
\* of e as they are now
ImportCheck(p, u, e, ow, data) ==
    /\ last[p].pc = "idle"
    /\ LET req == [IdleWriter EXCEPT !.op = "import", !.user = u,
                                     !.environment = e, !.overwrite = ow,
                                     !.data = data, !.existing = VarsOf(e)]
       IN last' = [last EXCEPT ![p] =
              IF ~IsWriterRole(RoleOf(u, EnvOrg(e)))
              THEN [req EXCEPT !.pc = "done", !.status = 403,
                               !.error = "permission_denied"]
              ELSE IF validate_env_data(data) # {}
                   THEN [req EXCEPT !.pc = "done", !.status = 400,
                                    !.error = "invalid_data"]
              ELSE IF Conflicts(e, data) # {} /\ ~Truthy(ow)
                   THEN [req EXCEPT !.pc = "done", !.status = 409,
                                    !.error = "conflict"]
              ELSE [req EXCEPT !.pc = "checked"]]
    /\ UNCHANGED <<tenancy, variables, versions, audit, nextId, hist>>

\* the keys worker p's import inserts: those existing_vars did not hold
InsertedKeys(p) ==
    {k \in DOMAIN last[p].data :
        \A r \in last[p].existing : r.key # k}

\* worker p runs the loop of import_env_file and its audit row.  An insert of
\* a key that exists by now raises IntegrityError inside the atomic block:
\* the loop catches it, but the transaction is marked for rollback, the audit
\* insert then raises, the block rolls back and the view answers 500.
ImportWrite(p) ==
    /\ last[p].pc = "checked"
    /\ LET req == last[p]
           e == req.environment
           data == req.data
           new == NewKeys(e, data)
           failed == FailedKeys(data)
       IN IF \E k \in InsertedKeys(p) :
                 ViolatesUniqueTogether([id |-> nextId, key |-> k,
                                         environment |-> e])
          THEN /\ last' = [last EXCEPT ![p] =
                              [req EXCEPT !.pc = "done", !.status = 500,
                                          !.error = "server_error"]]
               /\ UNCHANGED <<tenancy, variables, versions, audit, nextId, hist>>
          ELSE /\ nextId + Len(new) - 1 <= MaxVarId
               /\ Len(audit) < MaxAudit
               /\ variables' = ImportedRows(req.user, e, data)
               /\ nextId' = nextId + Len(new)
               /\ hist' = [id \in 1..(nextId + Len(new) - 1) |->
                             IF id >= nextId
                             THEN [plain |-> PyStr(data[new[id - nextId + 1]]),
                                   updates |-> 0]
                             ELSE IF \E r \in VarsOf(e) :
                                        r.id = id /\ r.key \in DOMAIN data \ failed
                                  THEN [hist[id] EXCEPT !.plain =
                                           PyStr(data[RowById(id).key])]
                             ELSE hist[id]]
               /\ audit' = Append(audit,
                      AuditEntry(req.user, "import", "environment", EnvPk(e),
                                 [format |-> "json",
                                  imported_count |->
                                      Cardinality((DOMAIN data \ Conflicts(e, data)) \ failed),
                                  updated_count |->
                                      Cardinality(Conflicts(e, data) \ failed),
                                  failed_imports |-> Cardinality(failed),
                                  overwrite_enabled |-> req.overwrite,
                                  environment |-> e,
                                  project |-> EnvProject(e)]))
               /\ last' = [last EXCEPT ![p] =
                              [req EXCEPT !.pc = "done", !.status = 200]]
               /\ UNCHANGED <<tenancy, versions>>

\* the documents the concurrent imports carry
ConcurrentDocs == { KeyB :> "a", KeyF :> "b", KeyF :> "b" @@ KeyB :> "b" }

NextConcurrentCreate ==
    \/ \E p \in Procs, u \in Users, k \in {KeyB, KeyF}, v \in {"a", "b"} :
           CreateValidate(p, u, "e1", k, v)
    \/ \E p \in Procs : CreateSave(p)
    \/ \E p \in Procs, u \in Users, ow \in {PyFalse, PyTrue},
          data \in ConcurrentDocs :
           ImportCheck(p, u, "e1", ow, data)
    \/ \E p \in Procs : ImportWrite(p)

SpecConcurrentCreate == InitConcurrentCreate /\ [][NextConcurrentCreate]_vars

\* no two rows hold the same (environment, key)
UniqueKeys ==
    \A r, q \in variables :
        (r.environment = q.environment /\ r.key = q.key) => r = q

\* worker p passed its existence check, and a key it is about to insert
\* has been written by the other request since
LostRace(p) ==
    \/ /\ last[p].pc = "validated"
       /\ RowsAt(last[p].environment, last[p].key) # {}
    \/ /\ last[p].pc = "checked"
       /\ \E k \in InsertedKeys(p) : RowsAt(last[p].environment, k) # {}

\* C21: there is at most one Variable per (environment, key) in every
\* reachable state, also when two creates, or a create and an import, of the
\* same key interleave between existence check and write; the request that
\* lost the race fails (500) and changes no row (no second row, the winner's
\* value stands) and adds no audit row.
C21_OneRowPerKey ==
    [][/\ UniqueKeys'
       /\ \A p \in Procs :
             (LostRace(p) /\ last'[p].pc = "done")
             => (/\ last'[p].status = 500
                 /\ variables' = variables
                 /\ audit' = audit)]_vars

\* a create and an import raced for key B: the create was written, the
\* import failed, and B holds the value of the create
C21_Witness ==
    \E p, q \in Procs :
        /\ last[p].op = "create" /\ last[p].status = 201 /\ last[p].key = KeyB
        /\ last[q].op = "import" /\ last[q].status = 500
        /\ KeyB \in DOMAIN last[q].data
        /\ \E r \in RowsAt("e1", KeyB) :
              Decrypted(r.encrypted_value) = last[p].value
        /\ Cardinality(RowsAt("e1", KeyB)) = 1

----------------------------------------------------------------------------
(* Variable create and update when the database fails inside the            *)
(* transaction.atomic() block of perform_create / perform_update             *)

\* where the database raises while the block runs: not at all, at the write
\* of the variable row, or at the insert of the AuditLog row
Faults == {"none", "row", "audit"}

\* the table after a block that ran on autocommit: what was written before
\* the exception stays
transaction_atomic_Autocommit(raised, written, before) == written

\* the table after a transaction.atomic() block: the rows it wrote when it
\* ran to its end, the rows as they were before when it raised
transaction_atomic(raised, written, before) ==
    IF raised THEN before ELSE written

\* the create request reaches perform_create
CreatePasses(u, e, k, v) ==
    /\ ~KeyRejected(k)
    /\ validate(u, [key |-> k, environment |-> e, value |-> v], 0) = ""

\* POST /variables/ when the database raises at `fault`
VariableCreateFault(u, e, k, v, fault) ==
    IF fault = "none" \/ ~CreatePasses(u, e, k, v)
    THEN VariableCreate(u, e, k, v)
    ELSE /\ last = NoRequest
         /\ nextId <= MaxVarId
         /\ LET attrs == [key |-> k, environment |-> e, value |-> v]
                req == [Request("create", u) EXCEPT
                            !.environment = e, !.attrs = attrs]
                value == IF v = None THEN "" ELSE v
                row == [id |-> nextId, key |-> k, environment |-> e,
                        encrypted_value |-> IF value # "" THEN Encrypted(value)
                                            ELSE NoCiphertext,
                        created_by |-> u]
                \* serializer.save() has inserted the row when the audit
                \* insert raises
                written == IF fault = "audit" THEN variables \cup {row}
                           ELSE variables
            IN /\ variables' = transaction_atomic(TRUE, written, variables)
               /\ nextId' = transaction_atomic(TRUE,
                                 IF fault = "audit" THEN nextId + 1 ELSE nextId,
                                 nextId)
               /\ hist' = transaction_atomic(TRUE,
                               IF fault = "audit"
                               THEN Append(hist, [plain |-> value, updates |-> 0])
                               ELSE hist,
                               hist)
               /\ last' = [req EXCEPT !.status = 500, !.error = "database_error"]
               /\ UNCHANGED <<tenancy, versions, audit>>

\* the update request reaches instance.save() in EnvVariableSerializer.update
UpdatePasses(u, id, k, e, v) ==
    LET old == RowById(id)
        moved == [old EXCEPT !.key = IF k = NoKey THEN @ ELSE k,
                             !.environment = IF e = NoEnv THEN @ ELSE e]
    IN /\ InQueryset(u, old)
       /\ HasEnvironmentPermission(u, EnvOrg(old.environment),
                                   "partial_update", TRUE)
       /\ ~(k # NoKey /\ KeyRejected(k))
       /\ validate(u, [key |-> k, environment |-> e, value |-> v], id) = ""
       /\ ~ViolatesUniqueTogether(moved)
       /\ ~(v # None /\ EncryptFails(v))

\* PUT / PATCH /variables/{id}/ when the database raises at `fault`
VariableUpdateFault(u, id, k, e, v, fault) ==
    IF fault = "none" \/ ~(\E r \in variables : r.id = id)
       \/ ~UpdatePasses(u, id, k, e, v)
    THEN VariableUpdate(u, id, k, e, v)
    ELSE /\ last = NoRequest
         /\ LET old == RowById(id)
                attrs == [key |-> k, environment |-> e, value |-> v]
                req == [Request("update", u) EXCEPT
                            !.id = id, !.environment = old.environment,
                            !.attrs = attrs]
                new == [old EXCEPT
                            !.key = IF k = NoKey THEN @ ELSE k,
                            !.environment = IF e = NoEnv THEN @ ELSE e,
                            !.encrypted_value =
                                IF v = None THEN @ ELSE Encrypted(v)]
                written == IF fault = "audit"
                           THEN (variables \ {old}) \cup {new}
                           ELSE variables
            IN /\ variables' = transaction_atomic(TRUE, written, variables)
               /\ hist' = transaction_atomic(TRUE,
                               IF fault = "audit" /\ v # None
                               THEN [hist EXCEPT ![id] =
                                        [plain |-> v, updates |-> @.updates + 1]]
                               ELSE hist,
                               hist)
               /\ last' = [req EXCEPT !.status = 500, !.error = "database_error"]
               /\ UNCHANGED <<tenancy, versions, audit, nextId>>

FaultRequest ==
    \/ \E u \in AuditedUsers, e \in Envs, k \in {KeyB, KeyF, Keyf},
          v \in {None, "", "b"}, fault \in Faults :
           VariableCreateFault(u, e, k, v, fault)
    \/ \E u \in AuditedUsers, id \in 1..MaxVarId, k \in {NoKey, KeyB},
          v \in {None, "", "b"}, fault \in Faults :
           VariableUpdateFault(u, id, k, NoEnv, v, fault)
    \/ \E u \in AuditedUsers, id \in 1..MaxVarId : VariableDestroy(u, id)

NextFault ==
    \/ last = NoRequest /\ FaultRequest
    \/ Respond

SpecFault == Init /\ [][NextFault]_vars

\* the audit log gained exactly one entry, of `action` on variable id
OneAuditEntry(action, id) ==
    /\ Len(audit') = Len(audit) + 1
    /\ SubSeq(audit', 1, Len(audit)) = audit
    /\ audit'[Len(audit')].action = action
    /\ audit'[Len(audit')].target_type = "variable"
    /\ audit'[Len(audit')].target_id = id

\* C22: variable create and update are atomic together with their audit
\* record: a request that succeeds has written the variable row and exactly
\* one audit entry for it; a request any step of which fails (sealing the
\* value, writing the row, writing the audit entry) leaves variables,
\* versions and audit log exactly as they were.
C22_WriteAndAuditAreAtomic ==
    [][last'.op \in {"create", "update"} =>
          \/ /\ last'.status = 201
             /\ last'.op = "create"
             /\ \E r \in variables' \ variables :
                   /\ variables' = variables \cup {r}
                   /\ r.key = last'.attrs.key
                   /\ OneAuditEntry("create", r.id)
          \/ /\ last'.status = 200
             /\ last'.op = "update"
             /\ {r.id : r \in variables'} = {r.id : r \in variables}
             /\ \A r \in variables : r.id # last'.id => r \in variables'
             /\ OneAuditEntry("update", last'.id)
          \/ /\ last'.status \in {400, 403, 404, 500}
             /\ variables' = variables
             /\ versions' = versions
             /\ audit' = audit]_vars

\* an update whose audit insert failed has been answered 500, and the
\* variable still holds the value it had
C22_Witness ==
    /\ last.op = "update"
    /\ last.status = 500
    /\ last.error = "database_error"
    /\ last.attrs.value = "b"
    /\ hist[last.id].plain = "a"
    /\ Decrypted(RowById(last.id).encrypted_value) = "a"

----------------------------------------------------------------------------
(* Empty values *)

\* C23: an empty-string value is never passed to the seal: a variable
\* create, a variable update and an import that are given the value ""
\* (and are not refused for another reason) succeed, store the empty
\* ciphertext marker, so that the variable reads back as "", and the import
\* does not report the key as failed.
C23_EmptyValueStoredAsNoValue ==
    [][/\ (/\ last'.op \in {"create", "update"}
           /\ last'.attrs.value = ""
           /\ last'.status \notin {400, 403, 404})
          => /\ last'.status \in {200, 201}
             /\ \E r \in variables' :
                   /\ r.id = last'.id
                   /\ r.encrypted_value = NoCiphertext
                   /\ Decrypted(r.encrypted_value) = ""
       /\ (/\ last'.op = "import"
           /\ last'.status \notin {400, 403, 409})
          => \A k \in DOMAIN last'.data :
                last'.data[k] = "" =>
                   /\ last'.status = 200
                   /\ k \notin last'.failed
                   /\ \E r \in variables' :
                         /\ r.environment = last'.environment
                         /\ r.key = k
                         /\ r.encrypted_value = NoCiphertext]_vars

\* C24: after an import that writes, a key listed in failed_imports has left
\* no trace: no new row exists for it, and a row that existed before is
\* unchanged; every row the import created holds a sealed value that unseals
\* to the imported value.
C24_FailedImportLeavesNoTrace ==
    [][(last'.op = "import" /\ last'.status = 200) =>
          LET e == last'.environment
              data == last'.data
          IN /\ \A k \in last'.failed :
                   {r \in variables' : r.environment = e /\ r.key = k}
                      = RowsAt(e, k)
             /\ \A r \in variables' :
                   r.id >= nextId =>
                      /\ r.encrypted_value # NoCiphertext
                      /\ ~DecryptFails(r.encrypted_value)
                      /\ Decrypted(r.encrypted_value) = data[r.key]]_vars

----------------------------------------------------------------------------
(* Format detection of an import: the parser import_env_file chooses for    *)
(* format 'auto', and validate_import_format(content, 'auto')               *)

LB == "{"
RB == "}"
COLON == ":"
DASH == "-"

\* pat in s, for a text pat
RECURSIVE ContainsSeq(_, _)
ContainsSeq(s, pat) ==
    IF Len(s) < Len(pat) THEN FALSE
    ELSE IF SubSeq(s, 1, Len(pat)) = pat THEN TRUE
    ELSE ContainsSeq(Tail(s), pat)

\* the documents, before surrounding whitespace is added
JsonObject == <<LB, DQ, "B", DQ, COLON, DQ, "b", DQ, RB>>    \* {"B":"b"}
OpenBrace == <<LB, "B">>                                     \* {B
FlowMapping == <<LB, "B", COLON, SP, "b", RB>>               \* {B: b}
YamlMapping == <<"B", COLON, SP, "b">>                       \* B: b
YamlDocument == <<DASH, DASH, DASH, NL, "B", COLON, SP, "b">>
DotenvLine == <<"B", EQ, "b">>                               \* B=b
DotenvDashes == <<"B", EQ, DASH, DASH, DASH>>                \* B=---
OpenJson == <<LB, DQ, "B", DQ, COLON, DQ, "b", DQ>>          \* {"B":"b"
EmptyObject == <<LB, RB>>                                    \* {}
CommentLine == <<HASH, "B">>                                 \* #B

Bodies == {JsonObject, OpenBrace, FlowMapping, YamlMapping, YamlDocument,
           DotenvLine, DotenvDashes, OpenJson, EmptyObject, CommentLine}

\* the contents a request may carry: a document with whitespace around it
Contents ==
    {lead \o body \o trail :
        lead \in {<<>>, <<NL>>}, body \in Bodies,
        trail \in {<<>>, <<NL>>, <<SP>>}}

\* what a parser returns: a mapping, another value, or an exception
ParsedDict(d) == [kind |-> "dict", data |-> d]
ParsedOther == [kind |-> "other", data |-> <<>>]
ParseError == [kind |-> "error", data |-> <<>>]

\* json.loads on the documents above
json_loads(content) ==
    IF Strip(content) = JsonObject THEN ParsedDict(KeyB :> "b")
    ELSE IF Strip(content) = EmptyObject THEN ParsedDict(<<>>)
    ELSE ParseError

\* yaml.safe_load on the documents above: a flow or block mapping loads as a
\* dict, a plain scalar as a str, a comment as None, an unterminated flow
\* mapping raises
yaml_safe_load(content) ==
    IF Strip(content) \in {JsonObject, FlowMapping, YamlMapping, YamlDocument}
    THEN ParsedDict(KeyB :> "b")
    ELSE IF Strip(content) = EmptyObject THEN ParsedDict(<<>>)
    ELSE IF Strip(content) \in {DotenvLine, DotenvDashes, CommentLine}
         THEN ParsedOther
    ELSE ParseError

\* parse_env_file on the documents above (the mapping of characters as the
\* strings the store holds)
parse_env_text(content) ==
    LET env_vars == parse_env_file(content)
    IN ParsedDict([k \in DOMAIN env_vars |->
                      IF env_vars[k] = <<"b">> THEN "b" ELSE "---"])

\* import_env_file, format 'auto': the parser the if / elif / else picks
ViewParser(file_content) ==
    IF StartsWith(Strip(file_content), LB) THEN "json"
    ELSE IF ContainsSeq(file_content, <<DASH, DASH, DASH>>) THEN "yaml"
    ELSE "env"

\* validate_import_format(content, 'auto'): <<detected_format, is_valid>>
validate_import_format(raw) ==
    LET content == Strip(raw)
    IN IF content = <<>> THEN <<"unknown", FALSE>>
       ELSE IF /\ StartsWith(content, LB)
               /\ EndsWith(content, RB)
               /\ json_loads(content).kind # "error"
            THEN <<"json", TRUE>>
       ELSE IF /\ \/ ContainsSeq(content, <<DASH, DASH, DASH>>)
                  \/ Contains(content, COLON)
               /\ yaml_safe_load(content).kind = "dict"
            THEN <<"yaml", TRUE>>
       ELSE <<"env", TRUE>>

\* a request with format 'auto' and one of the contents has arrived
InitDetect ==
    /\ orgs = Orgs
    /\ members = InitMembers
    /\ invitations = InitInvitations
    /\ environments = Envs
    /\ variables = {}
    /\ versions = {}
    /\ audit = <<>>
    /\ nextId = 1
    /\ hist = <<>>
    /\ \E content \in Contents :
          last = ("content" :> content)
                 @@ [NoRequest EXCEPT !.op = "auto", !.format = "auto"]

\* import_env_file parses the content with the parser it picks; a parser
\* exception is answered 400
ViewParse ==
    /\ last.op = "auto"
    /\ LET parser == ViewParser(last.content)
           parsed == IF parser = "json" THEN json_loads(last.content)
                     ELSE IF parser = "yaml" THEN yaml_safe_load(last.content)
                     ELSE parse_env_text(last.content)
       IN last' = ("parser" :> parser)
                  @@ [last EXCEPT
                         !.op = "import_env_file",
                         !.status = IF parsed.kind = "dict" THEN 0 ELSE 400,
                         !.error = IF parsed.kind = "error" THEN "parse_error"
                                   ELSE IF parsed.kind = "other"
                                        THEN "invalid_data" ELSE "",
                         !.data = parsed.data]
    /\ UNCHANGED <<tenancy, variables, versions, audit, nextId, hist>>

\* validate_import_format is asked about the same content
ValidateImportFormat ==
    /\ last.op = "import_env_file"
    /\ last' = ("detected" :> validate_import_format(last.content)[1])
               @@ [last EXCEPT !.op = "validate_import_format"]
    /\ UNCHANGED <<tenancy, variables, versions, audit, nextId, hist>>

NextDetect == ViewParse \/ ValidateImportFormat

SpecDetect == InitDetect /\ [][NextDetect]_vars

\* C25: with format auto the import view chooses its parser by this decision
\* order, for every content: JSON if the trimmed content starts with '{' and
\* parses as a JSON object, otherwise YAML if the content parses to a
\* mapping, otherwise dotenv; and its choice equals the format
\* validate_import_format(content, 'auto') returns.
C25_AutoDetectionFollowsOrder ==
    last.op = "validate_import_format" =>
        LET content == last.content
            ordered ==
                IF /\ StartsWith(Strip(content), LB)
                   /\ json_loads(content).kind = "dict"
                THEN "json"
                ELSE IF yaml_safe_load(content).kind = "dict" THEN "yaml"
                ELSE "env"
        IN /\ last.parser = ordered
           /\ last.parser = last.detected

----------------------------------------------------------------------------
(* Dotenv parsing: the keys EnvFileParser.parse and parse_env_file return   *)

\* the longest text of a parser input (after an optional 'export ' prefix)
MaxLineLen == 4

CR == "\r"

\* s.startswith(pat) for a text pat
StartsWithSeq(s, pat) == Len(s) >= Len(pat) /\ SubSeq(s, 1, Len(pat)) = pat

ExportPrefix == <<"e", "x", "p", "o", "r", "t", SP>>

\* EnvFileParser._validate_key: "" for None, else the kind of the message
ValidateKey(key) ==
    IF key = <<>> THEN "empty_key"
    ELSE IF ~MatchesImportKey(key) THEN "invalid_key"
    ELSE ""

\* EnvFileParser._unescape_double_quoted: the replacements in dict order
UnescapeDoubleQuoted(value) ==
    Replace(Replace(Replace(Replace(Replace(Replace(value,
        <<BS, DQ>>, <<DQ>>),
        <<BS, SQ>>, <<SQ>>),
        <<BS, BS>>, <<BS>>),
        <<BS, "n">>, <<NL>>),
        <<BS, "t">>, <<TAB>>),
        <<BS, "r">>, <<CR>>)

\* EnvFileParser._process_value
ProcessValue(value) ==
    IF value = <<>> THEN <<>>
    ELSE IF Len(value) >= 2 /\ StartsWith(value, DQ) /\ EndsWith(value, DQ)
         THEN UnescapeDoubleQuoted(SubSeq(value, 2, Len(value) - 1))
    ELSE IF Len(value) >= 2 /\ StartsWith(value, SQ) /\ EndsWith(value, SQ)
         THEN SubSeq(value, 2, Len(value) - 1)
    ELSE value

\* the loop body of EnvFileParser.parse: the parser's env_vars, errors and
\* warnings after line number line_num
ParserLine(acc, raw, line_num, strict_mode) ==
    LET stripped == Strip(raw)
        line == IF StartsWithSeq(stripped, ExportPrefix)
                THEN Strip(SubSeq(stripped, 8, Len(stripped)))
                ELSE stripped
        eq == FirstIndex(line, EQ)
        key == Strip(SubSeq(line, 1, eq - 1))
        value == Strip(SubSeq(line, eq + 1, Len(line)))
        note(kind) == [line |-> line_num, kind |-> kind]
        stored == [k \in DOMAIN acc.env_vars \cup {key} |->
                      IF k = key THEN ProcessValue(value) ELSE acc.env_vars[k]]
    IN IF stripped = <<>> \/ StartsWith(stripped, HASH) THEN acc
       ELSE IF eq = 0
            THEN IF strict_mode
                 THEN [acc EXCEPT !.errors = Append(@, note("no_equals"))]
                 ELSE [acc EXCEPT !.warnings = Append(@, note("no_equals"))]
       ELSE IF ValidateKey(key) # ""
            THEN IF strict_mode
                 THEN [acc EXCEPT !.errors = Append(@, note(ValidateKey(key)))]
                 ELSE [acc EXCEPT
                          !.warnings = Append(@, note(ValidateKey(key))),
                          !.env_vars = stored]
       ELSE [acc EXCEPT !.env_vars = stored]

RECURSIVE ParserLines(_, _, _, _)
ParserLines(acc, lines, line_num, strict_mode) ==
    IF lines = <<>> THEN acc
    ELSE ParserLines(ParserLine(acc, Head(lines), line_num, strict_mode),
                     Tail(lines), line_num + 1, strict_mode)

\* EnvFileParser(strict_mode).parse(content), with the errors and warnings
\* it leaves on the parser
EnvFileParser_parse(content, strict_mode) ==
    ParserLines([env_vars |-> <<>>, errors |-> <<>>, warnings |-> <<>>],
                SplitLines(content), 1, strict_mode)

\* the characters of the parser inputs: a letter, a digit, '=', a blank, a
\* line break and a double quote
LineChars == {"B", "1", EQ, SP, NL, DQ}

\* the texts handed to the parsers
ParserInputs ==
    {prefix \o body :
        prefix \in {<<>>, ExportPrefix},
        body \in UNION {[1..n -> LineChars] : n \in 0..MaxLineLen}}

\* a text is about to be parsed, by a strict or a non-strict EnvFileParser
InitParser ==
    /\ orgs = Orgs
    /\ members = InitMembers
    /\ invitations = InitInvitations
    /\ environments = Envs
    /\ variables = {}
    /\ versions = {}
    /\ audit = <<>>
    /\ nextId = 1
    /\ hist = <<>>
    /\ \E content \in ParserInputs, strict_mode \in BOOLEAN :
          last = ("content" :> content) @@ ("strict_mode" :> strict_mode)
                 @@ [NoRequest EXCEPT !.op = "text", !.format = "env"]

\* EnvFileParser(strict_mode).parse(content)
ParserParse ==
    /\ last.op = "text"
    /\ LET result == EnvFileParser_parse(last.content, last.strict_mode)
       IN last' = ("parsed" :> result.env_vars)
                  @@ ("errors" :> result.errors)
                  @@ ("warnings" :> result.warnings)
                  @@ [last EXCEPT !.op = "EnvFileParser.parse"]
    /\ UNCHANGED <<tenancy, variables, versions, audit, nextId, hist>>

\* parse_env_file(content)
ParseText ==
    /\ last.op = "text"
    /\ last' = ("parsed" :> parse_env_file(last.content))
               @@ ("errors" :> <<>>) @@ ("warnings" :> <<>>)
               @@ [last EXCEPT !.op = "parse_env_file"]
    /\ UNCHANGED <<tenancy, variables, versions, audit, nextId, hist>>

NextParser == ParserParse \/ ParseText

SpecParser == InitParser /\ [][NextParser]_vars

\* C26: dotenv parsing never returns a key that fails
\* ^[A-Za-z_][A-Za-z0-9_]*$, for EnvFileParser.parse in either mode and for
\* parse_env_file: a line whose key is empty or malformed is skipped, and
\* EnvFileParser records it as a warning in non-strict mode and as an error
\* in strict mode.
C26_ParsedKeysAreWellFormed ==
    last.op \in {"EnvFileParser.parse", "parse_env_file"} =>
        /\ \A k \in DOMAIN last.parsed : MatchesImportKey(k)
        /\ last.strict_mode => last.warnings = <<>>
        /\ ~last.strict_mode => last.errors = <<>>

----------------------------------------------------------------------------
(* Import of null values *)

\* the mappings a JSON or YAML document with a null value parses to
NullDocs ==
    { KeyB :> None,                   \* {"B": null}
      KeyF :> None,                   \* a null for a key the environment holds
      KeyF :> "b" @@ KeyB :> None }   \* a null beside a text

NullRequest ==
    \/ \E u \in Users, e \in Envs, fmt \in {"json", "yaml"},
          ow \in {PyFalse, PyTrue}, data \in NullDocs :
           Import(u, e, fmt, ow, data)
    \/ \E u \in Users, e \in Envs : EnvironmentVariableList(u, e)
    \/ \E u \in Users, id \in 1..MaxVarId : VariableRetrieve(u, id)

NextNull ==
    \/ last = NoRequest /\ NullRequest
    \/ Respond

SpecNull == Init /\ [][NextNull]_vars

\* C27: a key whose imported value is null passes validation and is
\* converted to the empty string: after the import the variable has no
\* value and unseals to "", never to a text standing for null.
C27_NullImportedAsEmpty ==
    [][(/\ AdmittedImport(last')
        /\ last'.overwrite = PyTrue)
       => \A k \in DOMAIN last'.data :
             last'.data[k] = None =>
                /\ last'.status = 200
                /\ \E r \in variables' :
                      /\ r.environment = last'.environment
                      /\ r.key = k
                      /\ ~DecryptFails(r.encrypted_value)
                      /\ Decrypted(r.encrypted_value) = ""]_vars

----------------------------------------------------------------------------
(* Reading a variable whose ciphertext cannot be decrypted *)

NextRead ==
    \/ \E id \in 1..MaxVarId : CiphertextInvalidated(id)
    \/ \E u \in Users, id \in 1..MaxVarId : VariableRetrieve(u, id)
    \/ \E u \in Users, e \in Envs : EnvironmentVariableList(u, e)
    \/ Respond

SpecRead == InitExport /\ [][NextRead]_vars

\* C28: a decryption error is fatal for a direct single-value read: when an
\* admin or editor retrieves a variable whose stored ciphertext cannot be
\* decrypted, the request fails instead of answering 200 with a substitute
\* marker in place of the value.
C28_ReadFailsOnDecryptionError ==
    (/\ last.op = "retrieve"
     /\ IsWriterRole(LastRole)
     /\ DecryptFails(RowById(last.id).encrypted_value))
    => /\ last.status # 200
       /\ \A i \in DOMAIN last.body : last.body[i][2] # DECRYPTION_ERROR

----------------------------------------------------------------------------
(* The life of an invitation *)

\* the clock passes the expires_at of an invitation that is no longer pending
SettledInvitationExpires(o, invitee) ==
    /\ last = NoRequest
    /\ \E i \in InvitationsFor(o, invitee) :
          /\ i.status # "pending"
          /\ ~i.expired
          /\ invitations' = (invitations \ {i}) \cup {[i EXCEPT !.expired = TRUE]}
    /\ UNCHANGED <<orgs, members, environments, variables, versions, audit,
                   nextId, hist, last>>

\* the periodic task cleanup_expired_invitations: pending invitations past
\* their expires_at are marked expired; then the settled invitations created
\* more than 30 days ago (old, all of them past their 7-day expires_at) are
\* deleted
cleanup_expired_invitations(old) ==
    /\ last = NoRequest
    /\ \A i \in old : i.expired
    /\ LET marked == {IF i.status = "pending" /\ i.expired
                      THEN [i EXCEPT !.status = "expired"] ELSE i :
                      i \in invitations}
           aged == {IF i.status = "pending" /\ i.expired
                    THEN [i EXCEPT !.status = "expired"] ELSE i : i \in old}
       IN /\ invitations' = marked \ aged
          /\ invitations' # invitations
    /\ UNCHANGED <<orgs, members, environments, variables, versions, audit,
                   nextId, hist, last>>

\* organization o1 right after u1 has created it: u1 is its admin, nobody
\* has been invited
InitInvitation ==
    /\ orgs = {"o1"}
    /\ members = [o \in Orgs |-> [u \in Users |->
                     IF o = "o1" /\ u = "u1" THEN "admin" ELSE NoMember]]
    /\ invitations = {}
    /\ environments = {}
    /\ variables = {}
    /\ versions = {}
    /\ audit = <<>>
    /\ nextId = 1
    /\ hist = <<>>
    /\ last = NoRequest

\* the users that are invited
Invitees == {"u2", "u3"}

InvitationRequest ==
    \/ \E u \in Users, email \in Invitees, role \in {"editor", "viewer"} :
           invite_member(u, "o1", email, role)
    \/ \E u \in Invitees, invitee \in Invitees :
           accept_organization_invitation(u, "o1", invitee)
    \/ \E target \in Invitees : remove_member("u1", "o1", target)
    \/ \E invitee \in Invitees : InvitationExpires("o1", invitee)
    \/ \E invitee \in Invitees : SettledInvitationExpires("o1", invitee)
    \/ \E old \in SUBSET invitations : cleanup_expired_invitations(old)

NextInvitation ==
    \/ last = NoRequest /\ InvitationRequest
    \/ Respond

SpecInvitation == InitInvitation /\ [][NextInvitation]_vars

\* C29: invitation status 'accepted' and 'cancelled' are terminal: a pending
\* invitation moves only to accepted, expired or cancelled, and an accepted
\* or cancelled invitation keeps its status under every later request (also
\* when its token is presented again after its expiry time); a membership
\* that an accept request creates is created in the step that moves the
\* invitation from pending to accepted, so an invitation yields at most one.
C29_AcceptedAndCancelledAreTerminal ==
    [][/\ \A i \in invitations, j \in invitations' :
             (i.organization = j.organization /\ i.invitee = j.invitee) =>
                /\ i.status = "pending" =>
                      j.status \in {"pending", "accepted", "expired", "cancelled"}
                /\ i.status \in {"accepted", "cancelled"} =>
                      j.status = i.status
       /\ \A o \in Orgs, u \in Users :
             (last'.op = "accept_invitation"
                 /\ members[o][u] = NoMember /\ members'[o][u] # NoMember) =>
                \E i \in InvitationsFor(o, u) :
                   /\ i.status = "pending"
                   /\ [i EXCEPT !.status = "accepted"] \in invitations']_vars

\* C30: invite_member by an admin succeeds whenever the invited email is not
\* already a member and has no pending unexpired invitation to the
\* organization: also when an earlier invitation for that email exists
\* (pending but expired, or accepted, cancelled or expired), the request
\* creates a fresh pending invitation, and a stale pending one is marked
\* cancelled.
C30_InviteAgainSucceeds ==
    [][(/\ last'.op = "invite_member"
        /\ RoleOf(last'.user, last'.organization) = "admin"
        /\ last'.role \in Roles
        /\ Cardinality(MembersOf(last'.organization)) < MemberLimit
        /\ last'.target \notin MembersOf(last'.organization)
        /\ ~\E i \in InvitationsFor(last'.organization, last'.target) :
               i.status = "pending" /\ ~i.expired)
       => (/\ last'.status = 201
           /\ \E i \in invitations' \ invitations :
                 /\ i.organization = last'.organization
                 /\ i.invitee = last'.target
                 /\ i.status = "pending"
                 /\ ~i.expired
           /\ \A i \in invitations :
                 (/\ i.organization = last'.organization
                  /\ i.invitee = last'.target
                  /\ i.status = "pending")
                 => i \notin invitations')]_vars

====
